---- MODULE Spec2Model ----
(***************************************************************************)
(* Lifecycle of the addon testers of aws-k8s-tester:                       *)
(*   - the remote hollow-nodes tester (Create / Delete and their steps),   *)
(*   - the NLB hello-world tester (Apply / Delete and their steps),        *)
(*   - the managed node group waiter (Wait and the steps of waitForNodes)  *)
(*     and the status it derives from a certificate signing request.       *)
(* The Kubernetes API server is modelled by the set of objects it holds    *)
(* (cluster) and by the answer it gives to each call, which is an input.   *)
(* Errors are modelled as a reason (the structured status the apierrs      *)
(* predicates read) and a message, a sequence of text tokens that          *)
(* fmt.Errorf and strings.Join concatenate.                                *)
(***************************************************************************)
EXTENDS Integers, Sequences, FiniteSets, TLC

(***************************************************************************)
(* Bounds of the model.                                                    *)
(***************************************************************************)
\* operations (Create, Apply, Delete) invoked in one behaviour
MaxOps == 2
\* failing answers (API server errors, unreadable kubeconfig, failed probes)
\* injected in one behaviour
MaxFaults == 2
\* largest configured AddOnHollowNodesRemote.Nodes
MaxNodes == 2
\* largest configured AddOnHollowNodesRemote.NodeGroups
MaxNodeGroups == 1
\* calls of Wait in one behaviour
MaxWaits == 1
\* largest retries argument of Wait
MaxRetries == 1
\* largest ASGMinSize and ASGDesiredCapacity of the managed node group
MaxCapacity == 2
\* most conditions a certificate signing request carries
MaxConds == 3
\* most node names a persisted configuration holds in CreatedNodeNames
MaxRecorded == 304
\* seconds the calls of one poll iteration of Wait take (ListNodes and
\* ListCSRs list in batches, with an interval between the batches)
ListLatency == 145
\* seconds each external call of a poll iteration (node list, kubectl logs)
\* takes, within its one-minute deadline
CallLatency == 45

(***************************************************************************)
(* Program constants (durations in seconds).                               *)
(***************************************************************************)
TickInterval == 5
CheckNodesBase == 300
CheckNodesPerNode == 2
HollowSettle == 120
NLBSettle == 60
NLBServiceWait == 180
DeleteNodesCap == 300
WaitBase == 600
WaitPerNode == 10
SGRetryWait == 5

hollowNodesServiceAccountName == "hollow-nodes-remote-service-account"
hollowNodesRBACRoleName == "hollow-nodes-remote-rbac-role"
hollowNodesRBACClusterRoleBindingName == "hollow-nodes-remote-rbac-role-binding"
hollowNodesKubeConfigConfigMapName == "hollow-nodes-remote-kubeconfig-configmap"
hollowNodesReplicationControllerName == "hollow-nodes-remote-replicationcontroller"
hollowNodesAppName == "hollow-nodes-remote-app"
deploymentName == "hello-world-deployment"
serviceName == "hello-world-service"
appImageName == "dockercloud/hello-world"

\* configuration values that never change in a run
HollowNamespace == "hollow-nodes-remote-ns"
NLBNamespace == "test-namespace"
NodeLabelPrefix == "hollow"
HollowTester == "github.com/aws/aws-k8s-tester/eks/hollow-nodes/remote"
NLBTester == "nlb-hello-world"
WaitTester == "github.com/aws/aws-k8s-tester/eks/mng/wait"
\* the managed node group of the configuration, and a name it does not hold
MNGName == "mng-a"
MNGNames == {MNGName, "mng-unknown"}
RemoteAccessSG == "sg-remote"
ASGName == "asg-mng-a"
CSRTester == "csr"
ParTester == "wait-concurrent"

\* the types a condition of a certificate signing request may have
CSRConditionTypes == {"Approved", "Denied", "Failed"}

RECURSIVE SeqsUpTo(_, _)
SeqsUpTo(S, n) ==
    IF n = 0 THEN {<<>>}
    ELSE LET shorter == SeqsUpTo(S, n - 1) IN
         shorter \cup {Append(s, x) : s \in shorter, x \in S}

(***************************************************************************)
(* Errors.                                                                 *)
(***************************************************************************)
Nil == [reason |-> "nil", msg |-> <<>>]

\* errors.New(text)
ErrorsNew(text) == [reason |-> "", msg |-> <<text>>]

\* fmt.Errorf(prefix + "%v" + suffix, e): the text of e is kept, its
\* structured status is not
Errorf(prefix, e, suffix) == [reason |-> "", msg |-> <<prefix>> \o e.msg \o <<suffix>>]

\* apierrs.IsAlreadyExists / apierrs.IsNotFound read the structured status
IsAlreadyExists(e) == e.reason = "AlreadyExists"
IsNotFound(e) == e.reason = "NotFound"

\* strings.Contains(e.Error(), text), for a text that is one token
Contains(e, text) == \E i \in 1..Len(e.msg) : e.msg[i] = text

\* strings.Join(errs, sep) over messages
RECURSIVE Join(_, _)
Join(errs, sep) ==
    IF Len(errs) = 0 THEN <<>>
    ELSE IF Len(errs) = 1 THEN errs[1]
    ELSE errs[1] \o <<sep>> \o Join(Tail(errs), sep)

\* needle occurs in hay as a contiguous run of tokens
IsSubSeq(needle, hay) ==
    \E i \in 0..(Len(hay) - Len(needle)) : SubSeq(hay, i + 1, i + Len(needle)) = needle

(***************************************************************************)
(* The objects of the cluster and the answers of the API server.           *)
(***************************************************************************)
Res(kind, ns, name) == [kind |-> kind, ns |-> ns, name |-> name]

\* fmt.Sprintf("%s-nodegroup-%d", prefix, i), fmt.Sprintf("%s-node-%d", ng, j)
NodeGroupName(i) == NodeLabelPrefix \o "-nodegroup-" \o ToString(i)
HollowNodeName(i, j) == NodeGroupName(i) \o "-node-" \o ToString(j)

HollowNamespaceRes == Res("Namespace", "", HollowNamespace)
ServiceAccountRes == Res("ServiceAccount", HollowNamespace, hollowNodesServiceAccountName)
ClusterRoleRes == Res("ClusterRole", "default", hollowNodesRBACRoleName)
ClusterRoleBindingRes == Res("ClusterRoleBinding", "default", hollowNodesRBACClusterRoleBindingName)
ConfigMapRes == Res("ConfigMap", HollowNamespace, hollowNodesKubeConfigConfigMapName)
HollowNodeRes(i, j) == Res("ReplicationController", HollowNamespace, HollowNodeName(i, j))
NamedReplicationControllerRes ==
    Res("ReplicationController", HollowNamespace, hollowNodesReplicationControllerName)
NLBNamespaceRes == Res("Namespace", "", NLBNamespace)
DeploymentRes == Res("Deployment", NLBNamespace, deploymentName)
ServiceRes == Res("Service", NLBNamespace, serviceName)

Resources ==
    {HollowNamespaceRes, ServiceAccountRes, ClusterRoleRes, ClusterRoleBindingRes,
     ConfigMapRes, NamedReplicationControllerRes, NLBNamespaceRes, DeploymentRes,
     ServiceRes}
    \cup {HollowNodeRes(i, j) : i \in 0..(MaxNodeGroups - 1), j \in 0..(MaxNodes - 1)}

\* what the API server holds for a resource: nothing, or an object with the
\* submitted spec
Absent == [exists |-> FALSE, data |-> ""]
Obj(data) == [exists |-> TRUE, data |-> data]

AlreadyExistsErr(r) == [reason |-> "AlreadyExists", msg |-> <<r.kind, r.name, "already exists">>]
NotFoundErr(r) == [reason |-> "NotFound", msg |-> <<r.kind, r.name, "not found">>]
\* an error without the structured status whose text says "not found"
NotFoundTextErr(r) == [reason |-> "Unknown", msg |-> <<r.kind, r.name, "not found">>]
ServerErr(r) == [reason |-> "InternalError", msg |-> <<r.kind, r.name, "internal error">>]

\* the answers counted against MaxFaults: failures, and the unstructured
\* "not found"
IsFault(e) == e.reason \in {"InternalError", "Unknown"}

\* the failing answers still allowed after f were injected
Faulty(r, f) == IF f < MaxFaults THEN {ServerErr(r)} ELSE {}

\* answers of the API server to Create, Update and Delete of r in cluster c
CreateAnswers(c, r, f) ==
    (IF c[r] = Absent THEN {Nil} ELSE {AlreadyExistsErr(r)}) \cup Faulty(r, f)
UpdateAnswers(c, r, f) ==
    (IF c[r] = Absent THEN {NotFoundErr(r)} ELSE {Nil}) \cup Faulty(r, f)
DeleteAnswers(c, r, f) ==
    (IF c[r] = Absent
     THEN {NotFoundErr(r)} \cup (IF f < MaxFaults THEN {NotFoundTextErr(r)} ELSE {})
     ELSE {Nil})
    \cup Faulty(r, f)

\* the cluster after the call was answered with e
AfterCreate(c, r, data, e) == IF e = Nil THEN [c EXCEPT ![r] = Obj(data)] ELSE c
AfterUpdate(c, r, data, e) == IF e = Nil THEN [c EXCEPT ![r] = Obj(data)] ELSE c
AfterDelete(c, r, e) == IF e = Nil THEN [c EXCEPT ![r] = Absent] ELSE c
\* deleting a namespace removes it and every object in it
AfterDeleteNamespace(c, r, e) ==
    IF e = Nil
    THEN [x \in Resources |-> IF x = r \/ x.ns = r.name THEN Absent ELSE c[x]]
    ELSE c

FaultCount(e) == IF IsFault(e) THEN 1 ELSE 0

\* one entry of the log of external calls
Call(op, r, data, at, ans) == [op |-> op, res |-> r, data |-> data, at |-> at, ans |-> ans]

(***************************************************************************)
(* State.                                                                  *)
(***************************************************************************)
VARIABLES
    tester,        \* which tester this run drives
    cfg,           \* EKSConfig.AddOnHollowNodesRemote, in memory
    store,         \* the configuration as last written by EKSConfig.Sync()
    nlb,           \* Config of the NLB hello-world tester
    cluster,       \* the objects the API server holds
    stopc,         \* TRUE once Stopc is closed
    now,           \* the clock, in seconds
    faults,        \* failing answers injected so far
    ops,           \* operations invoked so far
    op,            \* the operation running or last run
    pc,            \* position in the running operation, "idle" between operations
    ret,           \* what the last operation returned
    calls,         \* external calls issued by the running or last operation
    trace,         \* steps the running or last operation ran, with their results
    errs,          \* Delete's local errs
    ecrImage,      \* tester.ecrImage
    startTime,     \* createStart / deleteStart
    idx,           \* position of the createHollowNodes loop
    retryStart,    \* checkNodes' retryStart
    waitDur,       \* checkNodes' waitDur
    expectedNodes, \* checkNodes' expectedNodes
    nodeItems,     \* checkNodes' items: the nodes the iteration that ran last listed
    mng,           \* the node waiter: its managed node group and the locals of waitForNodes
    par            \* waiters run side by side: the configuration they share, their positions

vars == <<tester, cfg, store, nlb, cluster, stopc, now, faults, ops, op, pc, ret,
          calls, trace, errs, ecrImage, startTime, idx, retryStart, waitDur,
          expectedNodes, nodeItems, mng, par>>

\* timeutil.NewTimeFrame(start, end)
NewTimeFrame(start, end) == [start |-> start, end |-> end]

\* an operation that has not returned
Running == [reason |-> "running", msg |-> <<>>]

\* the arguments of Wait and the locals of waitForNodes before its first
\* statement
NoLocals ==
    [mngName |-> "", retries |-> 0, retriesLeft |-> 0, ec2PrivateDNS |-> {}, polled |-> FALSE,
     iteration |-> "none", listed |-> FALSE, nodes |-> <<>>, readies |-> 0,
     matched |-> <<>>, allCSRs |-> <<>>]

\* a certificate signing request that has not been classified
NoCSR == [conditions |-> <<>>, certificate |-> "", status |-> "unset"]

\* the managed node group entry of the configuration before Wait is called
InitialMNGs ==
    [RemoteAccessSecurityGroupID : {"", RemoteAccessSG},
     ASGName : {""},
     ASGMinSize : 0..MaxCapacity,
     ASGDesiredCapacity : 0..MaxCapacity,
     Instances : {{}},
     PrivateDNSToNodeInfo : {{}}]

\* the node groups waited for side by side, each by a flow of its own
Flows == {"mng-a", "mng-b"}

\* an entry of EKSConfig.AddOnManagedNodeGroups.MNGs before Wait is called
NoEntry == [RemoteAccessSecurityGroupID |-> "", ASGName |-> "", Instances |-> {}]

\* the EKSConfig the flows share, before any of them has run
InitialShared == [MNGs |-> [f \in Flows |-> NoEntry], PrivateDNSToNodeInfo |-> {}]

\* the flows before their first statement: mem is the EKSConfig in memory,
\* file what Sync wrote last, cur the local cur of each flow, fatal whether
\* the runtime has thrown
InitialPar ==
    [mem |-> InitialShared, file |-> InitialShared,
     pc |-> [f \in Flows |-> "lookup"], cur |-> [f \in Flows |-> NoEntry],
     fatal |-> FALSE]

Init ==
    /\ tester \in {HollowTester, NLBTester, WaitTester, CSRTester, ParTester}
    /\ par = InitialPar
    /\ \E cur \in (IF tester = WaitTester THEN InitialMNGs
                   ELSE {CHOOSE m \in InitialMNGs :
                            m.RemoteAccessSecurityGroupID = "" /\ m.ASGMinSize = 0
                            /\ m.ASGDesiredCapacity = 0}),
          csr \in (IF tester = CSRTester
                   THEN [conditions : SeqsUpTo(CSRConditionTypes, MaxConds),
                         certificate : {"", "cert"}, status : {"unset"}]
                   ELSE {NoCSR}) :
        mng = [cur |-> cur, store |-> cur, local |-> NoLocals, csr |-> csr]
    /\ cfg \in [Enable : IF tester = HollowTester THEN BOOLEAN ELSE {FALSE},
                Created : {FALSE},
                Nodes : IF tester = HollowTester THEN 1..MaxNodes ELSE {1},
                NodeGroups : IF tester = HollowTester THEN 1..MaxNodeGroups ELSE {1},
                TimeFrameCreate : {NewTimeFrame(0, 0)},
                TimeFrameDelete : {NewTimeFrame(0, 0)},
                CreatedNodeNames : {<<>>}]
    /\ store = cfg
    /\ nlb \in [EnablePrompt : IF tester = NLBTester THEN BOOLEAN ELSE {FALSE}]
    /\ cluster = [r \in Resources |-> Absent]
    /\ stopc = FALSE
    /\ now = 0
    /\ faults = 0
    /\ ops = 0
    /\ op = "none"
    /\ pc = "idle"
    /\ ret = Nil
    /\ calls = <<>>
    /\ trace = <<>>
    /\ errs = <<>>
    /\ ecrImage = ""
    /\ startTime = 0
    /\ idx = 0
    /\ retryStart = 0
    /\ waitDur = 0
    /\ expectedNodes = 0
    /\ nodeItems = <<>>

\* the positions at which the running operation reads Stopc next
ReadsStopc == {"checkNodesPoll", "checkDeployment", "ApplyWaitService", "checkService",
               "checkServicePoll", "WaitUntilRunning", "waitForNodesPoll"}

\* Stopc is closed by the caller. It may be closed at any time; it is read
\* only at the positions of ReadsStopc, so closing it earlier shows as
\* closing it when the operation gets there. Closing it while an iteration
\* of a node poll runs, after the iteration's select, is part of the poll
\* actions
Stop ==
    /\ ~stopc
    /\ pc \in ReadsStopc
    /\ stopc' = TRUE
    /\ UNCHANGED <<tester, mng, par, nodeItems, cfg, store, nlb, cluster, now, faults, ops, op, pc, ret,
                   calls, trace, errs, ecrImage, startTime, idx, retryStart, waitDur,
                   expectedNodes>>

(***************************************************************************)
(* The hollow-nodes tester: Create.                                        *)
(***************************************************************************)
\* the steps of Create's loop, in the order of the slice
CreateSteps ==
    <<"createServiceAccount", "createRBACClusterRole", "createRBACClusterRoleBinding",
      "createConfigMap", "createHollowNodes", "checkNodes">>

StepIndex(steps, s) == CHOOSE i \in 1..Len(steps) : steps[i] = s

\* reflect.TypeOf(step) of a func() error, formatted with %s
ReflectTypeOf(step) == "func() error"

\* fmt.Errorf("while executing step %s(), %v", reflect.TypeOf(step), err)
StepErrorf(step, e) ==
    [reason |-> "", msg |-> <<"while executing step ", ReflectTypeOf(step), "(), ">> \o e.msg]

\* ts.cfg.EKSConfig.Sync() of configuration c: what the store then holds
Sync(c) == c

\* (mutant) the deferred function records no time frame
CreateDeferredRecordsNothing(c, start, end) == c

\* (mutant) the deferred function takes the created mark back
CreateDeferredClearsCreated(c, start, end) ==
    [c EXCEPT !.TimeFrameCreate = NewTimeFrame(start, end), !.Created = FALSE]

\* Create's deferred function: the time frame is recorded and synced
CreateDeferred(c, start, end) == [c EXCEPT !.TimeFrameCreate = NewTimeFrame(start, end)]

\* Create returns e, its in-memory configuration being c
CreateReturns(e, c) ==
    /\ cfg' = CreateDeferred(c, startTime, now')
    /\ store' = Sync(cfg')
    /\ ret' = e
    /\ pc' = "idle"
    /\ idx' = 0
    /\ retryStart' = 0
    /\ waitDur' = 0
    /\ expectedNodes' = 0

\* (mutant) the loop goes on after a failed step
CreateStepReturnsGoesOn(step, e, c, synced) ==
    /\ trace' = Append(trace, [step |-> step, err |-> e,
                               synced |-> synced \/ StepIndex(CreateSteps, step) = Len(CreateSteps)])
    /\ IF StepIndex(CreateSteps, step) = Len(CreateSteps)
       THEN CreateReturns(e, c)
       ELSE /\ cfg' = c
            /\ store' = IF synced THEN Sync(c) ELSE store
            /\ pc' = CreateSteps[StepIndex(CreateSteps, step) + 1]
            /\ UNCHANGED <<ret, idx, retryStart, waitDur, expectedNodes>>

\* a step of Create's loop returned e; synced tells whether the step synced
\* the configuration c before returning. The trace keeps, with the step and
\* its result, whether Sync was called between the step's work and whatever
\* follows the step: by the step, or by Create when it returns
CreateStepReturns(step, e, c, synced) ==
    /\ trace' = Append(trace, [step |-> step, err |-> e,
                               synced |-> synced \/ e # Nil
                                          \/ StepIndex(CreateSteps, step) = Len(CreateSteps)])
    /\ IF e # Nil
       THEN CreateReturns(StepErrorf(step, e), c)
       ELSE IF StepIndex(CreateSteps, step) = Len(CreateSteps)
       THEN CreateReturns(Nil, c)
       ELSE /\ cfg' = c
            /\ store' = IF synced THEN Sync(c) ELSE store
            /\ pc' = CreateSteps[StepIndex(CreateSteps, step) + 1]
            /\ UNCHANGED <<ret, idx, retryStart, waitDur, expectedNodes>>

\* (mutant) AlreadyExists is returned like any other error
CreateOrUpdateNoUpdate(c, r, data, o1, o2, at) ==
    [err |-> o1,
     cluster |-> AfterCreate(c, r, data, o1),
     calls |-> <<Call("create", r, data, at, o1)>>,
     faults |-> FaultCount(o1)]

\* client.Create, and client.Update when Create answered AlreadyExists:
\* the error left in err, the cluster and the calls issued
CreateOrUpdate(c, r, data, o1, o2, at) ==
    IF IsAlreadyExists(o1)
    THEN [err |-> o2,
          cluster |-> AfterUpdate(c, r, data, o2),
          calls |-> <<Call("create", r, data, at, o1), Call("update", r, data, at, o2)>>,
          faults |-> FaultCount(o1) + FaultCount(o2)]
    ELSE [err |-> o1,
          cluster |-> AfterCreate(c, r, data, o1),
          calls |-> <<Call("create", r, data, at, o1)>>,
          faults |-> FaultCount(o1)]

\* the answers to the Update that follows a Create answered with o1
UpdateAnswersAfter(c, r, f, o1) ==
    IF IsAlreadyExists(o1) THEN UpdateAnswers(c, r, f + FaultCount(o1)) ELSE {Nil}

\* (mutant) the flag is not set when Create starts
CreateNotMarked(c) == c

\* (mutant) Create runs whether the addon is enabled or not
CreateNeverSkipped(c) == FALSE

\* !IsEnabledAddOnHollowNodesRemote(): Create is skipped
CreateSkipped(c) == ~c.Enable

\* ts.cfg.EKSConfig.AddOnHollowNodesRemote.Created = true
CreateMarked(c) == [c EXCEPT !.Created = TRUE]

Create ==
    /\ tester = HollowTester
    /\ pc = "idle"
    /\ ops < MaxOps
    /\ ops' = ops + 1
    /\ op' = "Create"
    /\ calls' = <<>>
    /\ trace' = <<>>
    /\ IF CreateSkipped(cfg)
       THEN /\ ret' = Nil
            /\ UNCHANGED <<cfg, store, pc, startTime>>
       ELSE /\ cfg' = CreateMarked(cfg)
            /\ store' = Sync(cfg')
            /\ startTime' = now
            /\ ret' = Running
            /\ pc' = "ecrCheck"
    /\ nodeItems' = <<>>
    /\ UNCHANGED <<tester, mng, par, nlb, cluster, stopc, now, faults, errs, ecrImage, idx,
                   retryStart, waitDur, expectedNodes>>

EcrRes == Res("ECRImage", "", "hollow-nodes-image")

\* aws_ecr.Check: the image is found, or the check fails
ecrCheck ==
    /\ pc = "ecrCheck"
    /\ \E e \in {Nil} \cup Faulty(EcrRes, faults) :
        /\ calls' = Append(calls, Call("check", EcrRes, "", now, e))
        /\ trace' = Append(trace, [step |-> "ecrCheck", err |-> e, synced |-> e # Nil])
        /\ faults' = faults + FaultCount(e)
        /\ ecrImage' = IF e = Nil THEN EcrRes.name ELSE ""
        /\ now' = now
        /\ IF e # Nil
           THEN CreateReturns(e, cfg)
           ELSE /\ pc' = "CreateNamespace"
                /\ UNCHANGED <<cfg, store, ret, idx, retryStart, waitDur, expectedNodes>>
    /\ UNCHANGED <<tester, mng, par, nodeItems, nlb, cluster, stopc, ops, op, errs, startTime>>

\* k8s_client.CreateNamespace: an existing namespace is not an error
CreateNamespaceCall(c, r, o, at) ==
    [err |-> IF IsAlreadyExists(o) THEN Nil ELSE o,
     cluster |-> AfterCreate(c, r, "namespace", o),
     calls |-> <<Call("create", r, "namespace", at, o)>>,
     faults |-> FaultCount(o)]

CreateNamespace ==
    /\ pc = "CreateNamespace"
    /\ \E o \in CreateAnswers(cluster, HollowNamespaceRes, faults) :
        LET r == CreateNamespaceCall(cluster, HollowNamespaceRes, o, now) IN
        /\ calls' = calls \o r.calls
        /\ trace' = Append(trace, [step |-> "CreateNamespace", err |-> r.err,
                                   synced |-> r.err # Nil])
        /\ faults' = faults + r.faults
        /\ cluster' = r.cluster
        /\ now' = now
        /\ IF r.err # Nil
           THEN CreateReturns(r.err, cfg)
           ELSE /\ pc' = CreateSteps[1]
                /\ UNCHANGED <<cfg, store, ret, idx, retryStart, waitDur, expectedNodes>>
    /\ UNCHANGED <<tester, mng, par, nodeItems, nlb, stopc, ops, op, errs, ecrImage, startTime>>

createServiceAccount ==
    /\ pc = "createServiceAccount"
    /\ \E o1 \in CreateAnswers(cluster, ServiceAccountRes, faults) :
       \E o2 \in UpdateAnswersAfter(cluster, ServiceAccountRes, faults, o1) :
        LET r == CreateOrUpdate(cluster, ServiceAccountRes, hollowNodesAppName, o1, o2, now)
            e == IF r.err # Nil
                 THEN Errorf("while creating service account (", r.err, ")")
                 ELSE Nil
        IN
        /\ calls' = calls \o r.calls
        /\ faults' = faults + r.faults
        /\ cluster' = r.cluster
        /\ now' = now
        /\ CreateStepReturns("createServiceAccount", e, cfg, TRUE)
    /\ UNCHANGED <<tester, mng, par, nodeItems, nlb, stopc, ops, op, errs, ecrImage, startTime>>

\* the outer err of createRBACClusterRole: the if statement declares its own
\* err for the answer of Create, assigns the answer of Update to it, and the
\* outer one is never assigned
ClusterRoleOuterErr(o1, o2) == Nil

createRBACClusterRole ==
    /\ pc = "createRBACClusterRole"
    /\ \E o1 \in CreateAnswers(cluster, ClusterRoleRes, faults) :
       \E o2 \in UpdateAnswersAfter(cluster, ClusterRoleRes, faults, o1) :
        LET r == CreateOrUpdate(cluster, ClusterRoleRes, hollowNodesAppName, o1, o2, now)
            err == ClusterRoleOuterErr(o1, o2)
            e == IF err # Nil
                 THEN Errorf("failed to create kubemark RBAC ClusterRole (", err, ")")
                 ELSE Nil
        IN
        /\ calls' = calls \o r.calls
        /\ faults' = faults + r.faults
        /\ cluster' = r.cluster
        /\ now' = now
        /\ CreateStepReturns("createRBACClusterRole", e, cfg, TRUE)
    /\ UNCHANGED <<tester, mng, par, nodeItems, nlb, stopc, ops, op, errs, ecrImage, startTime>>

createRBACClusterRoleBinding ==
    /\ pc = "createRBACClusterRoleBinding"
    /\ \E o1 \in CreateAnswers(cluster, ClusterRoleBindingRes, faults) :
       \E o2 \in UpdateAnswersAfter(cluster, ClusterRoleBindingRes, faults, o1) :
        LET r == CreateOrUpdate(cluster, ClusterRoleBindingRes, hollowNodesRBACRoleName, o1, o2, now)
            e == IF r.err # Nil
                 THEN Errorf("failed to create kubemark RBAC ClusterRoleBinding (", r.err, ")")
                 ELSE Nil
        IN
        /\ calls' = calls \o r.calls
        /\ faults' = faults + r.faults
        /\ cluster' = r.cluster
        /\ now' = now
        /\ CreateStepReturns("createRBACClusterRoleBinding", e, cfg, TRUE)
    /\ UNCHANGED <<tester, mng, par, nodeItems, nlb, stopc, ops, op, errs, ecrImage, startTime>>

KubeConfigRes == Res("File", "", "kubeconfig")
KubeConfigData == "kubeconfig-yaml"

\* ioutil.ReadFile(KubeConfigPath) fails, or the ConfigMap is created or updated
createConfigMap ==
    /\ pc = "createConfigMap"
    /\ \/ \E e \in Faulty(KubeConfigRes, faults) :
            /\ faults' = faults + 1
            /\ now' = now
            /\ CreateStepReturns("createConfigMap", e, cfg, FALSE)
            /\ UNCHANGED <<calls, cluster>>
       \/ \E o1 \in CreateAnswers(cluster, ConfigMapRes, faults) :
          \E o2 \in UpdateAnswersAfter(cluster, ConfigMapRes, faults, o1) :
            LET r == CreateOrUpdate(cluster, ConfigMapRes, KubeConfigData, o1, o2, now)
                e == IF r.err # Nil
                     THEN Errorf("while creating configmap ", r.err, "")
                     ELSE Nil
            IN
            /\ calls' = calls \o r.calls
            /\ faults' = faults + r.faults
            /\ cluster' = r.cluster
            /\ now' = now
            /\ CreateStepReturns("createConfigMap", e, cfg, TRUE)
    /\ UNCHANGED <<tester, mng, par, nodeItems, nlb, stopc, ops, op, errs, ecrImage, startTime>>

\* createHollowNode(name, ng) for the pair (i, j) the loops of
\* createHollowNodes are at; the step returns at the first failure or after
\* the last pair
createHollowNodes ==
    /\ pc = "createHollowNodes"
    /\ LET i == idx \div cfg.Nodes
           j == idx % cfg.Nodes
           res == HollowNodeRes(i, j)
       IN
       \E o1 \in CreateAnswers(cluster, res, faults) :
       \E o2 \in UpdateAnswersAfter(cluster, res, faults, o1) :
        LET r == CreateOrUpdate(cluster, res, ecrImage, o1, o2, now)
            e == IF r.err # Nil
                 THEN Errorf("failed to create hollow node ReplicationController (", r.err, ")")
                 ELSE Nil
            stepErr == [reason |-> "",
                        msg |-> <<"while creating hollow node ", res.name, ", ">> \o e.msg]
        IN
        /\ calls' = calls \o r.calls
        /\ faults' = faults + r.faults
        /\ cluster' = r.cluster
        /\ now' = now
        /\ IF e # Nil
           THEN CreateStepReturns("createHollowNodes", stepErr, cfg, FALSE)
           ELSE IF idx + 1 = cfg.NodeGroups * cfg.Nodes
           THEN /\ CreateStepReturns("createHollowNodes", Nil, cfg, FALSE)
           ELSE /\ idx' = idx + 1
                /\ UNCHANGED <<cfg, store, ret, pc, trace, retryStart, waitDur, expectedNodes>>
    /\ UNCHANGED <<tester, mng, par, nodeItems, nlb, stopc, ops, op, errs, ecrImage, startTime>>

(***************************************************************************)
(* The hollow-nodes tester: checkNodes.                                    *)
(***************************************************************************)
\* strings.HasPrefix(s, prefix)
HasPrefix(s, prefix) == Len(s) >= Len(prefix) /\ SubSeq(s, 1, Len(prefix)) = prefix

Cond(type, status) == [type |-> type, status |-> status]
ReadyConds == <<Cond("MemoryPressure", "True"), Cond("Ready", "True")>>
NotReadyConds == <<Cond("MemoryPressure", "True"), Cond("Ready", "False")>>

Node(name, ngName, conds) == [name |-> name, NGName |-> ngName, conds |-> conds]

\* the nodes a listing may hold, in the order the API server lists them:
\* two hollow nodes of the configured prefix and a node of another group
ListedNodes ==
    <<{Node("fake-node-0", NodeGroupName(0), c) : c \in {ReadyConds, NotReadyConds}},
      {Node("fake-node-1", NodeGroupName(0), c) : c \in {ReadyConds, NotReadyConds}},
      {Node("ip-192-168-1-1", "mng", c) : c \in {ReadyConds}}>>

RECURSIVE ListingsFrom(_)
ListingsFrom(k) ==
    IF k > Len(ListedNodes) THEN {<<>>}
    ELSE LET rest == ListingsFrom(k + 1) IN
         rest \cup {<<n>> \o l : n \in ListedNodes[k], l \in rest}

\* the answers of Nodes().List
Listings == ListingsFrom(1)

\* the inner loop of checkNodes: the node has a condition of status True
\* and type Ready
HasReadyCondition(node) ==
    \E k \in 1..Len(node.conds) :
        node.conds[k].status = "True" /\ node.conds[k].type = "Ready"

\* the node passes the label test and has a Ready condition
IsCreatedReadyNode(node) ==
    HasPrefix(node.NGName, NodeLabelPrefix) /\ HasReadyCondition(node)

\* createdNodeNames after the loop over items
RECURSIVE CreatedNodeNamesOf(_)
CreatedNodeNamesOf(items) ==
    IF items = <<>> THEN <<>>
    ELSE (IF IsCreatedReadyNode(Head(items)) THEN <<Head(items).name>> ELSE <<>>)
         \o CreatedNodeNamesOf(Tail(items))

\* readies after the loop over items
ReadiesOf(items) == Len(CreatedNodeNamesOf(items))

\* (mutant) the names of the iteration are appended to those recorded
NamesAccumulated(recorded, listed) == recorded \o CreatedNodeNamesOf(listed)

\* CreatedNodeNames = createdNodeNames, at the end of an iteration that
\* listed the nodes
NamesAfterIteration(recorded, listed) == CreatedNodeNamesOf(listed)

\* (mutant) the expected count is not halved
ExpectedNodesNotHalved(c) == c.Nodes * c.NodeGroups

\* expectedNodes = Nodes * NodeGroups; expectedNodes /= 2
ExpectedNodes(c) == (c.Nodes * c.NodeGroups) \div 2

\* waitDur = 5*time.Minute + 2*time.Second*time.Duration(expectedNodes)
CheckNodesWaitDur(expected) == CheckNodesBase + CheckNodesPerNode * expected

\* readies > 0 && readies >= expectedNodes
CheckNodesReady(readies, expected) == readies > 0 /\ readies >= expected

NodesRes == Res("NodeList", "", "nodes")

\* the start of checkNodes, up to the loop
checkNodes ==
    /\ pc = "checkNodes"
    /\ expectedNodes' = ExpectedNodes(cfg)
    /\ retryStart' = now
    /\ waitDur' = CheckNodesWaitDur(expectedNodes')
    /\ pc' = "checkNodesPoll"
    /\ nodeItems' = <<>>
    /\ UNCHANGED <<tester, mng, par, cfg, store, nlb, cluster, stopc, now, faults, ops, op, ret,
                   calls, trace, errs, ecrImage, startTime, idx>>

\* one evaluation of the loop condition of checkNodes and, when it holds,
\* one iteration; after the loop, the return of checkNodes
checkNodesPoll ==
    /\ pc = "checkNodesPoll"
    /\ IF ~(now - retryStart < waitDur)
       THEN /\ now' = now
            /\ nodeItems' = <<>>
            /\ CreateStepReturns("checkNodes",
                   [reason |-> "", msg |-> <<"NG ", NodeLabelPrefix, " not ready">>],
                   cfg, FALSE)
            /\ UNCHANGED <<calls, faults, stopc>>
       ELSE IF stopc
       THEN /\ now' = now
            /\ nodeItems' = <<>>
            /\ CreateStepReturns("checkNodes", ErrorsNew("checking node aborted"), cfg, FALSE)
            /\ UNCHANGED <<calls, faults, stopc>>
       ELSE \* Stopc may be closed while the iteration runs, after its select
            /\ stopc' \in BOOLEAN
            /\ \/ \E e \in Faulty(NodesRes, faults) :
                   \* the list call fails: continue, before items is assigned
                   /\ now' = now + TickInterval + CallLatency
                   /\ calls' = Append(calls, Call("list", NodesRes, "", now + TickInterval, e))
                   /\ faults' = faults + 1
                   /\ nodeItems' = <<>>
                   /\ UNCHANGED <<cfg, store, ret, pc, trace, idx, retryStart, waitDur,
                                  expectedNodes>>
               \/ \E listed \in Listings :
                   LET c == [cfg EXCEPT !.CreatedNodeNames =
                                            NamesAfterIteration(cfg.CreatedNodeNames, listed)]
                   IN
                   /\ now' = now + TickInterval + 2 * CallLatency
                   /\ calls' = Append(calls, Call("list", NodesRes, "", now + TickInterval, Nil))
                   /\ faults' = faults
                   /\ nodeItems' = listed
                   /\ IF CheckNodesReady(ReadiesOf(listed), expectedNodes)
                      THEN CreateStepReturns("checkNodes", Nil, c, TRUE)
                      ELSE /\ cfg' = c
                           /\ store' = Sync(c)
                           /\ UNCHANGED <<ret, pc, trace, idx, retryStart, waitDur,
                                          expectedNodes>>
    /\ UNCHANGED <<tester, mng, par, nlb, cluster, ops, op, errs, ecrImage, startTime>>

(***************************************************************************)
(* The hollow-nodes tester: Delete.                                        *)
(***************************************************************************)
\* (mutant) the namespace is deleted before the service account
DeleteStepsNamespaceEarly ==
    <<"deleteReplicationController", "deleteCreatedNodes", "deleteConfigMap",
      "deleteRBACClusterRoleBinding", "deleteRBACClusterRole", "DeleteNamespaceAndWait",
      "deleteServiceAccount">>

\* the teardown steps of Delete, in the order of its body
DeleteSteps ==
    <<"deleteReplicationController", "deleteCreatedNodes", "deleteConfigMap",
      "deleteRBACClusterRoleBinding", "deleteRBACClusterRole", "deleteServiceAccount",
      "DeleteNamespaceAndWait">>

\* (mutant) only the structured NotFound counts as absent
DeleteFailedStructuredOnly(o) == o # Nil /\ ~IsNotFound(o)

\* err != nil && !apierrs.IsNotFound(err) && !strings.Contains(err.Error(), "not found")
DeleteFailed(o) == o # Nil /\ ~IsNotFound(o) /\ ~Contains(o, "not found")

\* Delete's deferred function
DeleteDeferred(c, start, end) == [c EXCEPT !.TimeFrameDelete = NewTimeFrame(start, end)]

\* (mutant) errs keeps the last failure only
AppendErrOverwrites(es, e) == IF e # Nil THEN <<e.msg>> ELSE es

\* if err != nil { errs = append(errs, err.Error()) }
AppendErr(es, e) == IF e # Nil THEN Append(es, e.msg) ELSE es

\* a teardown step other than the last returned e
DeleteStepReturns(step, e) ==
    /\ trace' = Append(trace, [step |-> step, err |-> e, synced |-> e = Nil])
    /\ errs' = AppendErr(errs, e)
    /\ pc' = DeleteSteps[StepIndex(DeleteSteps, step) + 1]
    /\ store' = IF e = Nil THEN Sync(cfg) ELSE store
    /\ UNCHANGED <<cfg, ret>>

\* (mutant) the created guard is missing
DeleteSkippedNoCreatedGuard(c) == ~c.Enable

\* the two guards of Delete: the addon is not enabled, or was not created
DeleteSkipped(c) == ~c.Enable \/ ~c.Created

Delete ==
    /\ tester = HollowTester
    /\ pc = "idle"
    /\ ops < MaxOps
    /\ ops' = ops + 1
    /\ op' = "Delete"
    /\ calls' = <<>>
    /\ trace' = <<>>
    /\ IF DeleteSkipped(cfg)
       THEN /\ ret' = Nil
            /\ UNCHANGED <<pc, startTime>>
       ELSE /\ startTime' = now
            /\ ret' = Running
            /\ pc' = DeleteSteps[1]
    /\ nodeItems' = <<>>
    /\ UNCHANGED <<tester, mng, par, cfg, store, nlb, cluster, stopc, now, faults, errs, ecrImage,
                   idx, retryStart, waitDur, expectedNodes>>

\* (mutant) the sleep is skipped when the delete failed
deleteReplicationControllerSettlesOnSuccess ==
    /\ pc = "deleteReplicationController"
    /\ \E o \in DeleteAnswers(cluster, NamedReplicationControllerRes, faults) :
        /\ calls' = Append(calls, Call("delete", NamedReplicationControllerRes, "", now, o))
        /\ faults' = faults + FaultCount(o)
        /\ cluster' = AfterDelete(cluster, NamedReplicationControllerRes, o)
        /\ DeleteStepReturns("deleteReplicationController",
                             IF DeleteFailed(o) THEN o ELSE Nil)
        /\ now' = IF DeleteFailed(o) THEN now ELSE now + HollowSettle
    /\ UNCHANGED <<tester, mng, par, nodeItems, nlb, stopc, ops, op, ecrImage, startTime, idx, retryStart,
                   waitDur, expectedNodes>>

\* deleteReplicationController, and the sleep that follows it in Delete
deleteReplicationController ==
    /\ pc = "deleteReplicationController"
    /\ \E o \in DeleteAnswers(cluster, NamedReplicationControllerRes, faults) :
        /\ calls' = Append(calls, Call("delete", NamedReplicationControllerRes, "", now, o))
        /\ faults' = faults + FaultCount(o)
        /\ cluster' = AfterDelete(cluster, NamedReplicationControllerRes, o)
        /\ DeleteStepReturns("deleteReplicationController",
                             IF DeleteFailed(o) THEN o ELSE Nil)
    /\ now' = now + HollowSettle
    /\ UNCHANGED <<tester, mng, par, nodeItems, nlb, stopc, ops, op, ecrImage, startTime, idx, retryStart,
                   waitDur, expectedNodes>>

NodeRes(name) == Res("Node", "", name)

\* the answers to the delete of a node object
NodeDeleteAnswers(name, f) ==
    {Nil, NotFoundErr(NodeRes(name))}
    \cup (IF f < MaxFaults THEN {NotFoundTextErr(NodeRes(name))} ELSE {})
    \cup Faulty(NodeRes(name), f)

\* (mutant) the loop has no cap
NodesToDeleteAll(names) == names

\* the names deleteCreatedNodes issues a delete for: the loop breaks after
\* the iteration whose index exceeds the cap
NodesToDelete(names) ==
    SubSeq(names, 1, IF Len(names) > DeleteNodesCap + 2 THEN DeleteNodesCap + 2 ELSE Len(names))

\* the local errs of deleteCreatedNodes after the answers outs, in the
\* order of the answers (the sequence is halved so that a long one is
\* evaluated in few nested steps)
RECURSIVE NodeDeleteErrs(_)
NodeDeleteErrs(outs) ==
    IF outs = <<>> THEN <<>>
    ELSE IF Len(outs) = 1
    THEN (IF DeleteFailed(outs[1]) THEN <<outs[1].msg>> ELSE <<>>)
    ELSE LET h == Len(outs) \div 2 IN
         NodeDeleteErrs(SubSeq(outs, 1, h)) \o NodeDeleteErrs(SubSeq(outs, h + 1, Len(outs)))

FaultsIn(outs) == Cardinality({k \in 1..Len(outs) : IsFault(outs[k])})

\* errors.New(strings.Join(errs, ", ")), or nil when errs is empty
JoinedError(es) == IF Len(es) > 0 THEN [reason |-> "", msg |-> Join(es, ", ")] ELSE Nil

\* the answers to the deletes of names, one for each name: every
\* combination for the few names of a listing; for a long list, failures of
\* the first and of the last delete, the other deletes succeeding
NodeDeleteOutcomes(names, f) ==
    IF Len(names) <= Len(ListedNodes)
    THEN {outs \in [1..Len(names) ->
                      UNION {NodeDeleteAnswers(names[k], f) : k \in 1..Len(names)}] :
            /\ \A k \in 1..Len(names) : outs[k] \in NodeDeleteAnswers(names[k], f)
            /\ f + FaultsIn(outs) <= MaxFaults}
    ELSE {[k \in 1..Len(names) |-> IF k \in F THEN ServerErr(NodeRes(names[k])) ELSE Nil] :
            F \in {G \in SUBSET {1, Len(names)} : f + Cardinality(G) <= MaxFaults}}

deleteCreatedNodes ==
    /\ pc = "deleteCreatedNodes"
    /\ LET names == NodesToDelete(cfg.CreatedNodeNames) IN
       \E outs \in NodeDeleteOutcomes(names, faults) :
        /\ calls' = calls \o [k \in 1..Len(names) |-> Call("delete", NodeRes(names[k]), "", now, outs[k])]
        /\ faults' = faults + FaultsIn(outs)
        /\ trace' = Append(trace, [step |-> "deleteCreatedNodes",
                                   err |-> JoinedError(NodeDeleteErrs(outs)),
                                   synced |-> FALSE])
        /\ errs' = AppendErr(errs, JoinedError(NodeDeleteErrs(outs)))
        /\ pc' = DeleteSteps[StepIndex(DeleteSteps, "deleteCreatedNodes") + 1]
    /\ UNCHANGED <<tester, mng, par, nodeItems, cfg, store, nlb, cluster, stopc, now, ops, op, ret, ecrImage,
                   startTime, idx, retryStart, waitDur, expectedNodes>>

deleteConfigMap ==
    /\ pc = "deleteConfigMap"
    /\ \E o \in DeleteAnswers(cluster, ConfigMapRes, faults) :
        /\ calls' = Append(calls, Call("delete", ConfigMapRes, "", now, o))
        /\ faults' = faults + FaultCount(o)
        /\ cluster' = AfterDelete(cluster, ConfigMapRes, o)
        /\ DeleteStepReturns("deleteConfigMap", IF DeleteFailed(o) THEN o ELSE Nil)
    /\ UNCHANGED <<tester, mng, par, nodeItems, nlb, stopc, now, ops, op, ecrImage, startTime, idx, retryStart,
                   waitDur, expectedNodes>>

deleteRBACClusterRoleBinding ==
    /\ pc = "deleteRBACClusterRoleBinding"
    /\ \E o \in DeleteAnswers(cluster, ClusterRoleBindingRes, faults) :
        /\ calls' = Append(calls, Call("delete", ClusterRoleBindingRes, "", now, o))
        /\ faults' = faults + FaultCount(o)
        /\ cluster' = AfterDelete(cluster, ClusterRoleBindingRes, o)
        /\ DeleteStepReturns("deleteRBACClusterRoleBinding",
               IF DeleteFailed(o)
               THEN Errorf("failed to delete kubemark RBAC ClusterRoleBinding (", o, ")")
               ELSE Nil)
    /\ UNCHANGED <<tester, mng, par, nodeItems, nlb, stopc, now, ops, op, ecrImage, startTime, idx, retryStart,
                   waitDur, expectedNodes>>

deleteRBACClusterRole ==
    /\ pc = "deleteRBACClusterRole"
    /\ \E o \in DeleteAnswers(cluster, ClusterRoleRes, faults) :
        /\ calls' = Append(calls, Call("delete", ClusterRoleRes, "", now, o))
        /\ faults' = faults + FaultCount(o)
        /\ cluster' = AfterDelete(cluster, ClusterRoleRes, o)
        /\ DeleteStepReturns("deleteRBACClusterRole",
               IF DeleteFailed(o)
               THEN Errorf("failed to delete kubemark RBAC ClusterRole (", o, ")")
               ELSE Nil)
    /\ UNCHANGED <<tester, mng, par, nodeItems, nlb, stopc, now, ops, op, ecrImage, startTime, idx, retryStart,
                   waitDur, expectedNodes>>

deleteServiceAccount ==
    /\ pc = "deleteServiceAccount"
    /\ \E o \in DeleteAnswers(cluster, ServiceAccountRes, faults) :
        /\ calls' = Append(calls, Call("delete", ServiceAccountRes, "", now, o))
        /\ faults' = faults + FaultCount(o)
        /\ cluster' = AfterDelete(cluster, ServiceAccountRes, o)
        /\ DeleteStepReturns("deleteServiceAccount",
               IF DeleteFailed(o)
               THEN Errorf("failed to delete kubemark ServiceAccount (", o, ")")
               ELSE Nil)
    /\ UNCHANGED <<tester, mng, par, nodeItems, nlb, stopc, now, ops, op, ecrImage, startTime, idx, retryStart,
                   waitDur, expectedNodes>>

\* k8s_client.DeleteNamespaceAndWait: a namespace that is not there is not
\* an error
DeleteNamespaceAndWaitErr(o) == IF DeleteFailed(o) THEN o ELSE Nil

\* (mutant) created is cleared whatever the steps returned
DeleteResultAlwaysClears(es, c) ==
    [err |-> JoinedError(es), cfg |-> [c EXCEPT !.Created = FALSE]]

\* the end of Delete after the last teardown step left es in errs:
\* the error returned and the configuration before the deferred function
DeleteResult(es, c) ==
    IF Len(es) > 0
    THEN [err |-> JoinedError(es), cfg |-> c]
    ELSE [err |-> Nil, cfg |-> [c EXCEPT !.Created = FALSE]]

\* the namespace delete, and the end of Delete
DeleteNamespaceAndWait ==
    /\ pc = "DeleteNamespaceAndWait"
    /\ \E o \in DeleteAnswers(cluster, HollowNamespaceRes, faults) :
        LET e == DeleteNamespaceAndWaitErr(o)
            es == IF e # Nil
                  THEN Append(errs, Errorf("failed to delete hollow nodes namespace (", e, ")").msg)
                  ELSE errs
            r == DeleteResult(es, cfg)
        IN
        /\ calls' = Append(calls, Call("delete", HollowNamespaceRes, "", now, o))
        /\ faults' = faults + FaultCount(o)
        /\ cluster' = AfterDeleteNamespace(cluster, HollowNamespaceRes, o)
        /\ trace' = Append(trace, [step |-> "DeleteNamespaceAndWait", err |-> e,
                                   synced |-> TRUE])
        /\ cfg' = DeleteDeferred(r.cfg, startTime, now)
        /\ store' = Sync(cfg')
        /\ ret' = r.err
        /\ errs' = <<>>
        /\ pc' = "idle"
    /\ UNCHANGED <<tester, mng, par, nodeItems, nlb, stopc, now, ops, op, ecrImage, startTime, idx, retryStart,
                   waitDur, expectedNodes>>

HollowNext ==
    \/ Create
    \/ ecrCheck
    \/ CreateNamespace
    \/ createServiceAccount
    \/ createRBACClusterRole
    \/ createRBACClusterRoleBinding
    \/ createConfigMap
    \/ createHollowNodes
    \/ checkNodes
    \/ checkNodesPoll
    \/ Delete
    \/ deleteReplicationController
    \/ deleteCreatedNodes
    \/ deleteConfigMap
    \/ deleteRBACClusterRoleBinding
    \/ deleteRBACClusterRole
    \/ deleteServiceAccount
    \/ DeleteNamespaceAndWait

(***************************************************************************)
(* The NLB hello-world tester.                                             *)
(***************************************************************************)
\* the error of prompt.Run() when the prompt is interrupted
PromptErr == ErrorsNew("^C")

\* what prompt.Run() returns: the index of the chosen item, or an error. The
\* prompt is not run when it is not enabled
PromptAnswers(enablePrompt) ==
    IF enablePrompt
    THEN {[idx |-> 0, err |-> Nil], [idx |-> 1, err |-> Nil], [idx |-> 0, err |-> PromptErr]}
    ELSE {[idx |-> 1, err |-> Nil]}

\* runPrompt(action): with the prompt enabled, panic(err) when prompt.Run()
\* fails and ok is whether the second item was chosen; ok without the prompt
runPrompt(enablePrompt, answer) ==
    IF ~enablePrompt THEN [ok |-> TRUE, panic |-> Nil]
    ELSE IF answer.err # Nil THEN [ok |-> FALSE, panic |-> answer.err]
    ELSE [ok |-> answer.idx = 1, panic |-> Nil]

\* the value an operation panicked with: the operation does not return and
\* the process ends
Panic(e) == [reason |-> "panic", msg |-> e.msg]

ApplyReturns(e) ==
    /\ ret' = e
    /\ pc' = "idle"
    /\ retryStart' = 0

\* a step of Apply returned e
ApplyStepReturns(step, e, next) ==
    /\ trace' = Append(trace, [step |-> step, err |-> e])
    /\ IF e # Nil
       THEN ApplyReturns(e)
       ELSE IF next = "return"
       THEN ApplyReturns(Nil)
       ELSE /\ pc' = next
            /\ UNCHANGED <<ret, retryStart>>

Apply ==
    /\ tester = NLBTester
    /\ pc = "idle"
    /\ ops < MaxOps
    /\ ops' = ops + 1
    /\ op' = "Apply"
    /\ calls' = <<>>
    /\ trace' = <<>>
    /\ \E answer \in PromptAnswers(nlb.EnablePrompt) :
        LET p == runPrompt(nlb.EnablePrompt, answer) IN
        IF p.panic # Nil
        THEN /\ ret' = Panic(p.panic)
             /\ pc' = "panicked"
        ELSE IF ~p.ok
        THEN /\ ret' = ErrorsNew("cancelled")
             /\ pc' = "idle"
        ELSE /\ ret' = Running
             /\ pc' = "ApplyCreateNamespace"
    /\ UNCHANGED <<tester, mng, par, nodeItems, cfg, store, nlb, cluster, stopc, now, faults, errs, ecrImage,
                   startTime, idx, retryStart, waitDur, expectedNodes>>

ApplyCreateNamespace ==
    /\ pc = "ApplyCreateNamespace"
    /\ \E o \in CreateAnswers(cluster, NLBNamespaceRes, faults) :
        LET r == CreateNamespaceCall(cluster, NLBNamespaceRes, o, now) IN
        /\ calls' = calls \o r.calls
        /\ faults' = faults + r.faults
        /\ cluster' = r.cluster
        /\ ApplyStepReturns("CreateNamespace", r.err, "createDeployment")
    /\ UNCHANGED <<tester, mng, par, nodeItems, cfg, store, nlb, stopc, now, ops, op, errs, ecrImage, startTime,
                   idx, waitDur, expectedNodes>>

\* Create of the NLB tester's createDeployment and createService: an
\* existing object is left as it is and is not an error
CreateIfAbsent(c, r, data, o, at) ==
    [err |-> IF IsAlreadyExists(o) THEN Nil ELSE o,
     cluster |-> AfterCreate(c, r, data, o),
     calls |-> <<Call("create", r, data, at, o)>>,
     faults |-> FaultCount(o)]

createDeployment ==
    /\ pc = "createDeployment"
    /\ \E o \in CreateAnswers(cluster, DeploymentRes, faults) :
        LET r == CreateIfAbsent(cluster, DeploymentRes, appImageName, o, now)
            e == IF r.err # Nil
                 THEN Errorf("failed to create NLB hello-world Deployment (", r.err, ")")
                 ELSE Nil
        IN
        /\ calls' = calls \o r.calls
        /\ faults' = faults + r.faults
        /\ cluster' = r.cluster
        /\ ApplyStepReturns("createDeployment", e, "checkDeployment")
    /\ UNCHANGED <<tester, mng, par, nodeItems, cfg, store, nlb, stopc, now, ops, op, errs, ecrImage, startTime,
                   idx, waitDur, expectedNodes>>

\* client.WaitForDeploymentCompletes: the deployment completes, the wait
\* fails, or it is aborted when Stopc is closed
WaitForDeploymentCompletesAnswers(stopped, f) ==
    IF stopped THEN {ErrorsNew("wait aborted")}
    ELSE {Nil} \cup Faulty(DeploymentRes, f)

checkDeployment ==
    /\ pc = "checkDeployment"
    /\ \E e \in WaitForDeploymentCompletesAnswers(stopc, faults) :
        /\ calls' = Append(calls, Call("wait", DeploymentRes, "", now, e))
        /\ faults' = faults + FaultCount(e)
        /\ ApplyStepReturns("checkDeployment", e, "createService")
    /\ UNCHANGED <<tester, mng, par, nodeItems, cfg, store, nlb, cluster, stopc, now, ops, op, errs, ecrImage,
                   startTime, idx, waitDur, expectedNodes>>

\* createService, and the wait that follows it in Apply
createService ==
    /\ pc = "createService"
    /\ \E o \in CreateAnswers(cluster, ServiceRes, faults) :
        LET r == CreateIfAbsent(cluster, ServiceRes, "nlb", o, now)
            e == IF r.err # Nil
                 THEN Errorf("failed to create NLB hello-world Service (", r.err, ")")
                 ELSE Nil
        IN
        /\ calls' = calls \o r.calls
        /\ faults' = faults + r.faults
        /\ cluster' = r.cluster
        /\ ApplyStepReturns("createService", e, "ApplyWaitService")
    /\ UNCHANGED <<tester, mng, par, nodeItems, cfg, store, nlb, stopc, now, ops, op, errs, ecrImage, startTime,
                   idx, waitDur, expectedNodes>>

\* the select of Apply between Stopc and time.After(waitDur)
ApplyWaitService ==
    /\ pc = "ApplyWaitService"
    /\ IF stopc
       THEN /\ ApplyReturns(ErrorsNew("NLB hello-world Service apply aborted"))
            /\ now' = now
       ELSE /\ now' = now + NLBServiceWait
            /\ pc' = "checkService"
            /\ UNCHANGED <<ret, retryStart>>
    /\ UNCHANGED <<tester, mng, par, nodeItems, cfg, store, nlb, cluster, stopc, faults, ops, op, calls, trace,
                   errs, ecrImage, startTime, idx, waitDur, expectedNodes>>

\* client.WaitForServiceIngressHostname: the host name is found, the wait
\* fails, or it is aborted when Stopc is closed
WaitForServiceIngressHostnameAnswers(stopped, f) ==
    IF stopped THEN {ErrorsNew("wait aborted")}
    ELSE {Nil} \cup Faulty(ServiceRes, f)

CheckServicePreWait == 20
CheckServiceBudget == 180
CheckServiceRetryWait == 5

\* the start of checkService, up to the loop
checkService ==
    /\ pc = "checkService"
    /\ \E e \in WaitForServiceIngressHostnameAnswers(stopc, faults) :
        /\ calls' = Append(calls, Call("wait", ServiceRes, "", now, e))
        /\ faults' = faults + FaultCount(e)
        /\ IF e # Nil
           THEN /\ ApplyStepReturns("checkService", e, "return")
                /\ now' = now
           ELSE /\ now' = now + CheckServicePreWait
                /\ retryStart' = now'
                /\ pc' = "checkServicePoll"
                /\ UNCHANGED <<ret, trace>>
    /\ UNCHANGED <<tester, mng, par, nodeItems, cfg, store, nlb, cluster, stopc, ops, op, errs, ecrImage,
                   startTime, idx, waitDur, expectedNodes>>

AppRes == Res("URL", "", "http://nlb-host")

\* what http.ReadInsecure may read from the application
HttpOutputs == {"<h1>Hello world!</h1>", "<h1>503</h1>"}

\* one evaluation of the loop condition of checkService and, when it holds,
\* one iteration; after the loop, the return of checkService
checkServicePoll ==
    /\ pc = "checkServicePoll"
    /\ IF ~(now - retryStart < CheckServiceBudget)
       THEN /\ now' = now
            /\ ApplyStepReturns("checkService",
                   [reason |-> "",
                    msg |-> <<"NLB hello-world ", AppRes.name, " did not return expected HTML output">>],
                   "return")
            /\ UNCHANGED <<calls, faults>>
       ELSE IF stopc
       THEN /\ now' = now
            /\ ApplyStepReturns("checkService",
                                ErrorsNew("hello-world Service creation aborted"), "return")
            /\ UNCHANGED <<calls, faults>>
       ELSE \/ \E e \in Faulty(AppRes, faults) :
                /\ now' = now + TickInterval + CallLatency + CheckServiceRetryWait
                /\ calls' = Append(calls, Call("read", AppRes, "", now + TickInterval, e))
                /\ faults' = faults + 1
                /\ UNCHANGED <<ret, pc, trace, retryStart>>
            \/ \E out \in HttpOutputs :
                /\ now' = now + TickInterval + CallLatency
                /\ calls' = Append(calls, Call("read", AppRes, "", now + TickInterval, Nil))
                /\ faults' = faults
                /\ IF out = "<h1>Hello world!</h1>"
                   THEN ApplyStepReturns("checkService", Nil, "return")
                   ELSE UNCHANGED <<ret, pc, trace, retryStart>>
    /\ UNCHANGED <<tester, mng, par, nodeItems, cfg, store, nlb, cluster, stopc, ops, op, errs, ecrImage,
                   startTime, idx, waitDur, expectedNodes>>

\* the teardown steps of the NLB tester's Delete, in the order of its body
NLBDeleteSteps == <<"DeleteService", "DeleteDeployment", "DeleteNamespaceAndWait">>

\* client.DeleteService, client.DeleteDeployment: an object that is not
\* there is not an error
DeleteIfExistsErr(o) == IF DeleteFailed(o) THEN o ELSE Nil

NLBDelete ==
    /\ tester = NLBTester
    /\ pc = "idle"
    /\ ops < MaxOps
    /\ ops' = ops + 1
    /\ op' = "Delete"
    /\ calls' = <<>>
    /\ trace' = <<>>
    /\ errs' = <<>>
    /\ \E answer \in PromptAnswers(nlb.EnablePrompt) :
        LET p == runPrompt(nlb.EnablePrompt, answer) IN
        IF p.panic # Nil
        THEN /\ ret' = Panic(p.panic)
             /\ pc' = "panicked"
        ELSE IF ~p.ok
        THEN /\ ret' = ErrorsNew("cancelled")
             /\ pc' = "idle"
        ELSE /\ ret' = Running
             /\ pc' = "NLBDeleteService"
    /\ UNCHANGED <<tester, mng, par, nodeItems, cfg, store, nlb, cluster, stopc, now, faults, ecrImage,
                   startTime, idx, retryStart, waitDur, expectedNodes>>

\* client.DeleteService, and the sleep that follows it
NLBDeleteService ==
    /\ pc = "NLBDeleteService"
    /\ \E o \in DeleteAnswers(cluster, ServiceRes, faults) :
        LET e == DeleteIfExistsErr(o) IN
        /\ calls' = Append(calls, Call("delete", ServiceRes, "", now, o))
        /\ faults' = faults + FaultCount(o)
        /\ cluster' = AfterDelete(cluster, ServiceRes, o)
        /\ trace' = Append(trace, [step |-> "DeleteService", err |-> e])
        /\ errs' = IF e # Nil
                   THEN Append(errs, Errorf("failed to delete Service (", e, ")").msg)
                   ELSE errs
    /\ now' = now + NLBSettle
    /\ pc' = "NLBDeleteDeployment"
    /\ UNCHANGED <<tester, mng, par, nodeItems, cfg, store, nlb, stopc, ops, op, ret, ecrImage, startTime, idx,
                   retryStart, waitDur, expectedNodes>>

\* client.DeleteDeployment, and the sleep that follows it
NLBDeleteDeployment ==
    /\ pc = "NLBDeleteDeployment"
    /\ \E o \in DeleteAnswers(cluster, DeploymentRes, faults) :
        LET e == DeleteIfExistsErr(o) IN
        /\ calls' = Append(calls, Call("delete", DeploymentRes, "", now, o))
        /\ faults' = faults + FaultCount(o)
        /\ cluster' = AfterDelete(cluster, DeploymentRes, o)
        /\ trace' = Append(trace, [step |-> "DeleteDeployment", err |-> e])
        /\ errs' = IF e # Nil
                   THEN Append(errs, Errorf("failed to delete Deployment (", e, ")").msg)
                   ELSE errs
    /\ now' = now + NLBSettle
    /\ pc' = "NLBDeleteNamespaceAndWait"
    /\ UNCHANGED <<tester, mng, par, nodeItems, cfg, store, nlb, stopc, ops, op, ret, ecrImage, startTime, idx,
                   retryStart, waitDur, expectedNodes>>

\* the namespace delete, and the end of the NLB tester's Delete
NLBDeleteNamespaceAndWait ==
    /\ pc = "NLBDeleteNamespaceAndWait"
    /\ \E o \in DeleteAnswers(cluster, NLBNamespaceRes, faults) :
        LET e == DeleteNamespaceAndWaitErr(o)
            es == IF e # Nil
                  THEN Append(errs, Errorf("failed to delete namespace (", e, ")").msg)
                  ELSE errs
        IN
        /\ calls' = Append(calls, Call("delete", NLBNamespaceRes, "", now, o))
        /\ faults' = faults + FaultCount(o)
        /\ cluster' = AfterDeleteNamespace(cluster, NLBNamespaceRes, o)
        /\ trace' = Append(trace, [step |-> "DeleteNamespaceAndWait", err |-> e])
        /\ ret' = JoinedError(es)
        /\ errs' = <<>>
        /\ pc' = "idle"
    /\ UNCHANGED <<tester, mng, par, nodeItems, cfg, store, nlb, stopc, now, ops, op, ecrImage, startTime, idx,
                   retryStart, waitDur, expectedNodes>>

NLBNext ==
    \/ Apply
    \/ ApplyCreateNamespace
    \/ createDeployment
    \/ checkDeployment
    \/ createService
    \/ ApplyWaitService
    \/ checkService
    \/ checkServicePoll
    \/ NLBDelete
    \/ NLBDeleteService
    \/ NLBDeleteDeployment
    \/ NLBDeleteNamespaceAndWait

(***************************************************************************)
(* The node waiter (package wait): Wait and waitForNodes.                  *)
(***************************************************************************)
\* the variables of the other testers
OtherVars ==
    <<cfg, store, nlb, cluster, errs, ecrImage, startTime, idx, expectedNodes, nodeItems, par>>

\* strings.Split(s, ".")[0]
ShortHostname(s) ==
    LET dots == {i \in 1..Len(s) : SubSeq(s, i, i) = "."} IN
    IF dots = {} THEN s
    ELSE SubSeq(s, 1, (CHOOSE i \in dots : \A j \in dots : i <= j) - 1)

\* PrivateDNSName of the instances WaitUntilRunning may report
InstanceNames ==
    {"ip-1-2-3-4.region.compute.internal", "ip-5-6-7-8.region.compute.internal"}

\* the sets of instances WaitUntilRunning may report: one, or both
InstanceSets == {{"ip-1-2-3-4.region.compute.internal"}, InstanceNames}

\* (mutant) only the full private DNS names are kept
EC2PrivateDNSFullOnly(instances) == instances

\* ec2PrivateDNS, built from the private DNS names of cur.Instances
EC2PrivateDNS(instances) == instances \cup {ShortHostname(d) : d \in instances}

\* (mutant) only the exact host name is looked up
BelongsToExact(set, hostName) == hostName \in set

\* _, ok := ec2PrivateDNS[hostName]
\* if !ok { _, ok = ec2PrivateDNS[strings.Split(hostName, ".")[0]] }
BelongsTo(set, hostName) == hostName \in set \/ ShortHostname(hostName) \in set

Addr(type, address) == [type |-> type, address |-> address]

\* the loop over node.Status.Addresses: hostName after the loop over addrs,
\* being cur before it
RECURSIVE HostNameFrom(_, _, _)
HostNameFrom(addrs, set, cur) ==
    IF addrs = <<>> THEN cur
    ELSE IF Head(addrs).type \notin {"Hostname", "InternalDNS"}
    THEN HostNameFrom(Tail(addrs), set, cur)
    ELSE IF BelongsTo(set, Head(addrs).address)
    THEN Head(addrs).address
    ELSE HostNameFrom(Tail(addrs), set, Head(addrs).address)

HostName(node, set) == HostNameFrom(node.addresses, set, "")

MNGNode(name, ngName, addrs, conds) ==
    [name |-> name, NGName |-> ngName, addresses |-> addrs, conds |-> conds]

\* the nodes ListNodes may return, in the order it returns them: a node of
\* the group under its instance name or under a DHCP host name, ready or
\* not; and a second node, of the group or of another one, with a host
\* name of an instance, of no instance, or with no host name address
ListedNodeA ==
    {MNGNode("node-a", MNGName,
             <<Addr("Hostname", "ip-1-2-3-4.region.compute.internal")>>, ReadyConds),
     MNGNode("node-a", MNGName,
             <<Addr("InternalIP", "1.2.3.4"), Addr("Hostname", "ip-1-2-3-4.my-private-dns")>>,
             ReadyConds),
     MNGNode("node-a", MNGName,
             <<Addr("Hostname", "ip-1-2-3-4.region.compute.internal")>>, NotReadyConds)}
ListedNodeB ==
    {MNGNode("node-b", MNGName,
             <<Addr("InternalDNS", "ip-9-9-9-9.region.compute.internal"),
               Addr("Hostname", "ip-5-6-7-8.region.compute.internal")>>, ReadyConds),
     MNGNode("node-b", "mng-b",
             <<Addr("Hostname", "ip-5-6-7-8.region.compute.internal")>>, ReadyConds),
     MNGNode("node-b", MNGName, <<Addr("InternalIP", "5.6.7.8")>>, ReadyConds),
     MNGNode("node-b", MNGName,
             <<Addr("Hostname", "ip-9-9-9-9.region.compute.internal")>>, ReadyConds)}

\* the answers of ListNodes that are not errors
WaitListings ==
    {<<>>} \cup {<<a>> : a \in ListedNodeA} \cup {<<b>> : b \in ListedNodeB}
    \cup {<<a, b>> : a \in ListedNodeA, b \in ListedNodeB}

\* fmt.Errorf("%q not found for node %q", v1.NodeHostName, nodeName)
NoHostNameErr(nodeName) ==
    [reason |-> "", msg |-> <<"Hostname", " not found for node ", nodeName>>]

\* (mutant) the loop over nodes without the test of the NGName label
RECURSIVE CountReadiesAnyGroup(_, _, _, _)
CountReadiesAnyGroup(nodes, set, mngName, acc) ==
    IF nodes = <<>> THEN acc
    ELSE LET node == Head(nodes)
             h == HostName(node, set) IN
         IF h = "" THEN [acc EXCEPT !.err = NoHostNameErr(node.name)]
         ELSE IF ~BelongsTo(set, h) THEN CountReadiesAnyGroup(Tail(nodes), set, mngName, acc)
         ELSE CountReadiesAnyGroup(Tail(nodes), set, mngName,
                  [acc EXCEPT !.matched = Append(@, h),
                              !.readies = @ + (IF HasReadyCondition(node) THEN 1 ELSE 0)])

\* the loop over nodes of one poll iteration, acc holding readies, the host
\* names found in ec2PrivateDNS and the error the loop returned with
RECURSIVE CountReadies(_, _, _, _)
CountReadies(nodes, set, mngName, acc) ==
    IF nodes = <<>> THEN acc
    ELSE LET node == Head(nodes)
             h == HostName(node, set) IN
         IF node.NGName # mngName THEN CountReadies(Tail(nodes), set, mngName, acc)
         ELSE IF h = "" THEN [acc EXCEPT !.err = NoHostNameErr(node.name)]
         ELSE IF ~BelongsTo(set, h) THEN CountReadies(Tail(nodes), set, mngName, acc)
         ELSE CountReadies(Tail(nodes), set, mngName,
                  [acc EXCEPT !.matched = Append(@, h),
                              !.readies = @ + (IF HasReadyCondition(node) THEN 1 ELSE 0)])

\* (mutant) a failed ListNodes falls through to the count, of no nodes
ContinueAfterListErrorCounts(local) ==
    [local EXCEPT !.nodes = <<>>, !.readies = 0, !.matched = <<>>]

\* if err != nil { ...; continue }: the locals after a failed ListNodes
ContinueAfterListError(local) == local

\* readies := 0 before the loop
NoReadies == [readies |-> 0, matched |-> <<>>, err |-> Nil]

\* checkN: the desired capacity, or the minimum size when that is 0
CheckN(cur) == IF cur.ASGDesiredCapacity = 0 THEN cur.ASGMinSize ELSE cur.ASGDesiredCapacity

\* (mutant) the desired capacity is used also when it is 0
WaitDurOfDesiredOnly(cur) == WaitBase + WaitPerNode * cur.ASGDesiredCapacity

\* waitDur := 10*time.Minute + 10*time.Second*checkN
WaitDur(cur) == WaitBase + WaitPerNode * CheckN(cur)

\* (mutant) any ready node is enough
WaitReadyAny(readies, cur) == readies > 0

\* readies >= cur.ASGMinSize
WaitReady(readies, cur) == readies >= cur.ASGMinSize

MNGNotFoundErr(name) == [reason |-> "", msg |-> <<"MNGs[", name, "] not found">>]
MNGNotReadyErr(name) == [reason |-> "", msg |-> <<"MNG ", name, " not ready">>]
WaitAbortedErr == ErrorsNew("checking node aborted")

MNGRes == Res("Nodegroup", "", MNGName)
ASGRes == Res("AutoScalingGroup", "", ASGName)

\* the answers of DescribeNodegroup: an error, or an output without node
\* group, without resources, or with asgs auto scaling groups and the
\* remote access security group sg
DescribeAnswers(f) ==
    {[err |-> e, nodegroup |-> "nil", asgs |-> 0, sg |-> ""] : e \in Faulty(MNGRes, f)}
    \cup {[err |-> Nil, nodegroup |-> ng, asgs |-> 0, sg |-> ""] : ng \in {"nil", "no-resources"}}
    \cup {[err |-> Nil, nodegroup |-> "ok", asgs |-> n, sg |-> sg] :
            n \in 0..2, sg \in {"", RemoteAccessSG}}

\* the answers of aws_ec2.WaitUntilRunning: the private DNS names of the
\* running instances, or an error; with Stopc closed it gives up
WaitUntilRunningAnswers(stopped, f) ==
    IF stopped
    THEN {[err |-> ErrorsNew("wait aborted"), instances |-> {}]}
    ELSE {[err |-> Nil, instances |-> s] : s \in InstanceSets}
         \cup {[err |-> e, instances |-> {}] : e \in Faulty(ASGRes, f)}

\* (mutant) one more attempt is made when no retry is left
RetryLeftAtZero(retriesLeft) == retriesLeft >= 0

\* if retriesLeft > 0: the security group is asked for again
RetryLeft(retriesLeft) == retriesLeft > 0

\* Wait returns e
WaitReturns(e) ==
    /\ ret' = e
    /\ pc' = "idle"

\* Wait(mngName, retries): retries is any int, a negative one included
Wait ==
    /\ tester = WaitTester
    /\ pc = "idle"
    /\ ops < MaxWaits
    /\ ops' = ops + 1
    /\ op' = "Wait"
    /\ calls' = <<>>
    /\ trace' = <<>>
    /\ ret' = Running
    /\ pc' = "waitForNodes"
    /\ \E name \in MNGNames, retries \in (-1)..MaxRetries :
        mng' = [mng EXCEPT !.local = [NoLocals EXCEPT !.mngName = name,
                                                      !.retries = retries,
                                                      !.retriesLeft = retries]]
    /\ UNCHANGED <<tester, stopc, now, faults, retryStart, waitDur>>
    /\ UNCHANGED OtherVars

\* waitForNodes up to the call of WaitUntilRunning; the retry calls
\* waitForNodes again, with one retry less
waitForNodes ==
    /\ pc = "waitForNodes"
    /\ IF mng.local.mngName # MNGName
       THEN /\ WaitReturns(MNGNotFoundErr(mng.local.mngName))
            /\ UNCHANGED <<mng, calls, faults, now>>
       ELSE \E d \in DescribeAnswers(faults) :
            LET sg == IF mng.cur.RemoteAccessSecurityGroupID = ""
                      THEN d.sg ELSE mng.cur.RemoteAccessSecurityGroupID
                cur == [mng.cur EXCEPT !.RemoteAccessSecurityGroupID = sg,
                                       !.ASGName = ASGName]
            IN
            /\ calls' = Append(calls, Call("describe", MNGRes, "", now, d.err))
            /\ faults' = faults + FaultCount(d.err)
            /\ IF d.err # Nil
               THEN WaitReturns(d.err) /\ UNCHANGED <<mng, now>>
               ELSE IF d.nodegroup = "nil"
               THEN /\ WaitReturns([reason |-> "", msg |-> <<"MNG ", MNGName, " not found">>])
                    /\ UNCHANGED <<mng, now>>
               ELSE IF d.nodegroup = "no-resources"
               THEN /\ WaitReturns([reason |-> "",
                                    msg |-> <<"MNG ", MNGName, " Resources not found">>])
                    /\ UNCHANGED <<mng, now>>
               ELSE IF d.asgs # 1
               THEN /\ WaitReturns([reason |-> "",
                                    msg |-> <<"expected 1 ASG for ", MNGName, ", got ",
                                              ToString(d.asgs)>>])
                    /\ UNCHANGED <<mng, now>>
               ELSE IF sg = "" /\ RetryLeft(mng.local.retriesLeft)
               THEN /\ now' = now + SGRetryWait
                    /\ mng' = [mng EXCEPT !.local.retriesLeft = @ - 1]
                    /\ UNCHANGED <<ret, pc>>
               ELSE IF sg = ""
               THEN /\ WaitReturns([reason |-> "",
                                    msg |-> <<"remote access security group ID not found for mng ",
                                              MNGName>>])
                    /\ UNCHANGED <<mng, now>>
               ELSE \* retries and retriesLeft are not read past this point
                    /\ mng' = [mng EXCEPT !.cur = cur, !.store = Sync(cur),
                                           !.local.retries = 0,
                                           !.local.retriesLeft = 0]
                    /\ pc' = "WaitUntilRunning"
                    /\ UNCHANGED <<ret, now>>
    /\ UNCHANGED <<tester, stopc, ops, op, trace, retryStart, waitDur>>
    /\ UNCHANGED OtherVars

\* the call of WaitUntilRunning and the statements up to the poll loop
WaitUntilRunning ==
    /\ pc = "WaitUntilRunning"
    /\ \E a \in WaitUntilRunningAnswers(stopc, faults) :
        LET cur == [mng.cur EXCEPT !.Instances = a.instances,
                                   !.PrivateDNSToNodeInfo = @ \cup a.instances]
        IN
        /\ calls' = Append(calls, Call("wait", ASGRes, "", now, a.err))
        /\ faults' = faults + FaultCount(a.err)
        /\ IF a.err # Nil
           THEN /\ WaitReturns(a.err)
                /\ UNCHANGED <<mng, retryStart, waitDur>>
           ELSE /\ mng' = [mng EXCEPT !.cur = cur, !.store = Sync(cur),
                                      !.local.ec2PrivateDNS = EC2PrivateDNS(cur.Instances),
                                      !.local.polled = TRUE]
                /\ waitDur' = WaitDur(mng.cur)
                /\ retryStart' = now
                /\ pc' = "waitForNodesPoll"
                /\ UNCHANGED ret
    /\ UNCHANGED <<tester, stopc, now, ops, op, trace>>
    /\ UNCHANGED OtherVars

(***************************************************************************)
(* The node waiter: extractCSRStatus, applied to a certificate signing     *)
(* request of the output of ListCSRs.                                      *)
(***************************************************************************)
\* (mutant) the loop of extractCSRStatus with approval taking precedence
RECURSIVE CSRStatusApprovedFirst(_, _, _)
CSRStatusApprovedFirst(conds, approved, denied) ==
    IF conds = <<>>
    THEN (IF approved THEN "Approved" ELSE IF denied THEN "Denied" ELSE "Pending")
    ELSE IF Head(conds) = "Approved" THEN CSRStatusApprovedFirst(Tail(conds), TRUE, denied)
    ELSE IF Head(conds) = "Denied" THEN CSRStatusApprovedFirst(Tail(conds), approved, TRUE)
    ELSE ""

\* (mutant) a condition of another type is passed over
RECURSIVE CSRStatusUnknownIgnored(_, _, _)
CSRStatusUnknownIgnored(conds, approved, denied) ==
    IF conds = <<>>
    THEN (IF denied THEN "Denied" ELSE IF approved THEN "Approved" ELSE "Pending")
    ELSE IF Head(conds) = "Approved" THEN CSRStatusUnknownIgnored(Tail(conds), TRUE, denied)
    ELSE IF Head(conds) = "Denied" THEN CSRStatusUnknownIgnored(Tail(conds), approved, TRUE)
    ELSE CSRStatusUnknownIgnored(Tail(conds), approved, denied)

\* the loop over csr.Status.Conditions and the status it leads to, without
\* the certificate part; a condition of another type returns ""
RECURSIVE CSRStatus(_, _, _)
CSRStatus(conds, approved, denied) ==
    IF conds = <<>>
    THEN (IF denied THEN "Denied" ELSE IF approved THEN "Approved" ELSE "Pending")
    ELSE IF Head(conds) = "Approved" THEN CSRStatus(Tail(conds), TRUE, denied)
    ELSE IF Head(conds) = "Denied" THEN CSRStatus(Tail(conds), approved, TRUE)
    ELSE ""

\* extractCSRStatus: the status, and ",Issued" when a certificate is there
extractCSRStatus(csr) ==
    LET status == CSRStatus(csr.conditions, FALSE, FALSE) IN
    IF status = "" THEN ""
    ELSE IF Len(csr.certificate) > 0 THEN status \o ",Issued" ELSE status

\* k := extractCSRStatus(cv)
ClassifyCSR ==
    /\ tester = CSRTester
    /\ mng.csr.status = "unset"
    /\ mng' = [mng EXCEPT !.csr.status = extractCSRStatus(mng.csr)]
    /\ UNCHANGED <<tester, stopc, now, faults, ops, op, pc, ret, calls, trace, retryStart,
                   waitDur>>
    /\ UNCHANGED OtherVars

\* a request that is approved and has its certificate, and a denied one
ApprovedCSR == [conditions |-> <<"Approved">>, certificate |-> "cert", status |-> "unset"]
DeniedCSR == [conditions |-> <<"Denied">>, certificate |-> "", status |-> "unset"]

\* the answers of ListCSRs: an error, or the requests of the cluster
ListCSRsAnswers ==
    {[err |-> ServerErr(Res("CertificateSigningRequest", "", "")), output |-> <<>>]}
    \cup {[err |-> Nil, output |-> o] :
             o \in {<<ApprovedCSR>>, <<DeniedCSR, DeniedCSR>>}}

\* the loop over output: allCSRs[k] is 1 for a new status k, and one more
\* for a status that is there
RECURSIVE CountCSRs(_, _)
CountCSRs(output, allCSRs) ==
    IF output = <<>> THEN allCSRs
    ELSE LET k == extractCSRStatus(Head(output)) IN
         CountCSRs(Tail(output),
                   IF k \in DOMAIN allCSRs THEN [allCSRs EXCEPT ![k] = @ + 1]
                   ELSE IF allCSRs = <<>> THEN k :> 1 ELSE allCSRs @@ (k :> 1))

\* allCSRs := make(map[string]int), filled when ListCSRs returned no error
AllCSRs(csrs) == IF csrs.err # Nil THEN <<>> ELSE CountCSRs(csrs.output, <<>>)

\* (mutant) the loop goes on while a request is denied or ListCSRs fails
PollingNodesNoDenied(counted, readies, csrs) ==
    LET allCSRs == AllCSRs(csrs)
        logged == [counted EXCEPT !.local.iteration = "counted", !.local.allCSRs = allCSRs]
    IN
    IF WaitReady(readies, counted.cur) /\ csrs.err = Nil /\ "Denied" \notin DOMAIN allCSRs
    THEN [ready |-> TRUE, mng |-> [logged EXCEPT !.store = Sync(counted.cur)]]
    ELSE [ready |-> FALSE, mng |-> [counted EXCEPT !.local.iteration = "counted"]]

\* the rest of an iteration after the count of the ready nodes: ListCSRs
\* answers csrs, allCSRs is logged and the loop ends when
\* readies >= cur.ASGMinSize, with the Sync that follows the loop. allCSRs
\* is a local of the loop body: the one of the iteration that ended the loop
\* is kept, and none while the loop goes on
PollingNodes(counted, readies, csrs) ==
    LET allCSRs == AllCSRs(csrs)
        logged == [counted EXCEPT !.local.iteration = "counted", !.local.allCSRs = allCSRs]
    IN
    IF WaitReady(readies, counted.cur)
    THEN [ready |-> TRUE, mng |-> [logged EXCEPT !.store = Sync(counted.cur)]]
    ELSE [ready |-> FALSE, mng |-> [counted EXCEPT !.local.iteration = "counted"]]

\* the locals after ListNodes answered items and the ready nodes were counted
Counted(m, items, r) ==
    [m EXCEPT !.local.nodes = items, !.local.listed = TRUE,
              !.local.readies = r.readies, !.local.matched = r.matched]


\* one evaluation of the loop condition of waitForNodes and, when it holds,
\* one iteration; after the loop, the return of waitForNodes. The time of
\* the iteration is that of its tick and of its calls
waitForNodesPoll ==
    /\ pc = "waitForNodesPoll"
    /\ IF ~(now - retryStart < waitDur)
       THEN /\ WaitReturns(MNGNotReadyErr(mng.local.mngName))
            /\ UNCHANGED <<mng, now, stopc>>
       ELSE IF stopc
       THEN /\ WaitReturns(WaitAbortedErr)
            /\ UNCHANGED <<mng, now, stopc>>
       ELSE \* Stopc may be closed while the iteration runs, after its select
            /\ stopc' \in BOOLEAN
            /\ \/ \* ListNodes fails: continue
                  /\ now' = now + TickInterval + ListLatency
                  /\ mng' = [mng EXCEPT !.local = [ContinueAfterListError(@)
                                                     EXCEPT !.iteration = "list-failed"]]
                  /\ UNCHANGED <<ret, pc>>
               \/ \E items \in WaitListings :
                   LET r == CountReadies(items, mng.local.ec2PrivateDNS,
                                         mng.local.mngName, NoReadies)
                       counted == Counted(mng, items, r)
                   IN
                   IF r.err # Nil
                   THEN /\ now' = now + TickInterval + ListLatency
                        /\ mng' = [counted EXCEPT !.local.iteration = "no-hostname"]
                        /\ WaitReturns(r.err)
                   ELSE \E csrs \in ListCSRsAnswers :
                        LET p == PollingNodes(counted, r.readies, csrs) IN
                        /\ now' = now + TickInterval + ListLatency
                        /\ mng' = p.mng
                        /\ IF p.ready THEN WaitReturns(Nil) ELSE UNCHANGED <<ret, pc>>
    /\ UNCHANGED <<tester, faults, ops, op, calls, trace, retryStart, waitDur>>
    /\ UNCHANGED OtherVars

WaitNext ==
    \/ Wait
    \/ waitForNodes
    \/ WaitUntilRunning
    \/ waitForNodesPoll

(***************************************************************************)
(* The node waiter run for several node groups side by side, each Wait in  *)
(* a goroutine of its own on the one EKSConfig: the statements of          *)
(* waitForNodes that read and write the configuration, up to the poll.     *)
(* MNGs and PrivateDNSToNodeInfo are Go maps, accessed without a lock; two *)
(* accesses of a map by different goroutines, one of them a write, with    *)
(* nothing ordering them, are a data race, whose outcome is not defined.   *)
(***************************************************************************)
\* how the statement at a position accesses the maps of the configuration:
\* Sync reads the whole configuration to write it out
MapAccess(p) ==
    IF p \in {"store", "asg", "instances"} THEN "write"
    ELSE IF p \in {"lookup", "sync1", "sync2", "sync3", "reread", "sync4"} THEN "read"
    ELSE "none"

\* the statement flow f is at races with the statement another flow is at
Racing(f) ==
    \E g \in Flows \ {f} :
        /\ MapAccess(par.pc[g]) # "none"
        /\ MapAccess(par.pc[f]) = "write" \/ MapAccess(par.pc[g]) = "write"

\* what the services report for the node group of flow f
SGOf(f) == "sg-" \o f
ASGOf(f) == "asg-" \o f
InstancesOf(f) == {"ip-" \o f}

\* the outcomes of a map access of flow f that leaves the configuration m
\* when nothing goes wrong: as intended; and, in a race, also the write not
\* taking effect, or the runtime throwing (concurrent map writes,
\* concurrent map read and map write)
MapOutcomes(f, m) ==
    {[mem |-> m, fatal |-> FALSE]}
    \cup (IF Racing(f)
          THEN {[mem |-> par.mem, fatal |-> FALSE], [mem |-> par.mem, fatal |-> TRUE]}
          ELSE {})

ParVars == <<tester, cfg, store, nlb, cluster, stopc, now, faults, ops, op, pc, ret, calls,
             trace, errs, ecrImage, startTime, idx, retryStart, waitDur, expectedNodes,
             nodeItems, mng>>

\* the flows run until the runtime throws, which ends the process
ParRuns == tester = ParTester /\ ~par.fatal

\* flow f moves to position p with the outcome o of its map access
ParStep(f, p, o, cur) ==
    /\ par' = [par EXCEPT !.mem = o.mem, !.fatal = o.fatal, !.pc[f] = p, !.cur[f] = cur]
    /\ UNCHANGED ParVars

\* cur, ok := MNGs[mngName], DescribeNodegroup, and the security group put
\* into cur
ParLookup(f) ==
    /\ ParRuns
    /\ par.pc[f] = "lookup"
    /\ \E o \in MapOutcomes(f, par.mem) :
        ParStep(f, "store", o,
                [par.mem.MNGs[f] EXCEPT !.RemoteAccessSecurityGroupID = SGOf(f)])

\* MNGs[mngName] = cur
ParStore(f) ==
    /\ ParRuns
    /\ par.pc[f] = "store"
    /\ \E o \in MapOutcomes(f, [par.mem EXCEPT !.MNGs[f] = par.cur[f]]) :
        ParStep(f, "sync1", o, par.cur[f])

\* ts.cfg.EKSConfig.Sync(): the configuration in memory is written out
ParSync(f) ==
    /\ ParRuns
    /\ par.pc[f] \in {"sync1", "sync2", "sync3", "sync4"}
    /\ \E o \in MapOutcomes(f, par.mem) :
        par' = [par EXCEPT !.fatal = o.fatal,
                           !.file = IF o.fatal THEN @ ELSE Sync(par.mem),
                           !.pc[f] = CASE par.pc[f] = "sync1" -> "asg"
                                       [] par.pc[f] = "sync2" -> "running"
                                       [] par.pc[f] = "sync3" -> "reread"
                                       [] par.pc[f] = "sync4" -> "done"]
    /\ UNCHANGED ParVars

\* cur, ok = MNGs[mngName]; cur.ASGName = asg.Name; MNGs[mngName] = cur
ParASG(f) ==
    /\ ParRuns
    /\ par.pc[f] = "asg"
    /\ LET cur == [par.mem.MNGs[f] EXCEPT !.ASGName = ASGOf(f)] IN
       \E o \in MapOutcomes(f, [par.mem EXCEPT !.MNGs[f] = cur]) :
        ParStep(f, "sync2", o, cur)

\* aws_ec2.WaitUntilRunning
ParRunning(f) ==
    /\ ParRuns
    /\ par.pc[f] = "running"
    /\ par' = [par EXCEPT !.pc[f] = "instances"]
    /\ UNCHANGED ParVars

\* cur, ok = MNGs[mngName]; cur.Instances filled; PrivateDNSToNodeInfo
\* filled; MNGs[mngName] = cur
ParInstances(f) ==
    /\ ParRuns
    /\ par.pc[f] = "instances"
    /\ LET cur == [par.mem.MNGs[f] EXCEPT !.Instances = InstancesOf(f)] IN
       \E o \in MapOutcomes(f, [par.mem EXCEPT
                                   !.MNGs[f] = cur,
                                   !.PrivateDNSToNodeInfo = @ \cup InstancesOf(f)]) :
        ParStep(f, "sync3", o, cur)

\* cur, ok = MNGs[mngName] after the third Sync, and the poll, which reads
\* the local cur: it finds the nodes ready, and the Sync after the loop
\* follows, or waitForNodes returns an error without it
ParReread(f) ==
    /\ ParRuns
    /\ par.pc[f] = "reread"
    /\ \E o \in MapOutcomes(f, par.mem), ready \in BOOLEAN :
        ParStep(f, IF ready /\ ~o.fatal THEN "sync4" ELSE "done", o, par.mem.MNGs[f])

ParNext ==
    \/ \E f \in Flows : ParLookup(f)
    \/ \E f \in Flows : ParStore(f)
    \/ \E f \in Flows : ParSync(f)
    \/ \E f \in Flows : ParASG(f)
    \/ \E f \in Flows : ParRunning(f)
    \/ \E f \in Flows : ParInstances(f)
    \/ \E f \in Flows : ParReread(f)

Next == HollowNext \/ NLBNext \/ WaitNext \/ ClassifyCSR \/ ParNext \/ Stop

Spec == Init /\ [][Next]_vars

\* the node waiter alone
WaitInit == Init /\ tester = WaitTester
WaitSpec == WaitInit /\ [][WaitNext \/ Stop]_vars

\* a running operation goes on: each external call returns and the clock
\* advances
Progress == pc # "idle" /\ (HollowNext \/ NLBNext \/ WaitNext)
LiveSpec == Spec /\ WF_vars(Progress)

\* the hollow-nodes tester constructed over one of the configurations cs
\* that an earlier run persisted
PersistedInit(cs) ==
    /\ tester = HollowTester
    /\ par = InitialPar
    /\ mng = [cur |-> CHOOSE m \in InitialMNGs :
                        m.RemoteAccessSecurityGroupID = "" /\ m.ASGMinSize = 0
                        /\ m.ASGDesiredCapacity = 0,
              store |-> CHOOSE m \in InitialMNGs :
                        m.RemoteAccessSecurityGroupID = "" /\ m.ASGMinSize = 0
                        /\ m.ASGDesiredCapacity = 0,
              local |-> NoLocals, csr |-> NoCSR]
    /\ cfg \in cs
    /\ store = cfg
    /\ nlb = [EnablePrompt |-> FALSE]
    /\ cluster = [r \in Resources |-> Absent]
    /\ stopc = FALSE
    /\ now = 0
    /\ faults = 0
    /\ ops = 0
    /\ op = "none"
    /\ pc = "idle"
    /\ ret = Nil
    /\ calls = <<>>
    /\ trace = <<>>
    /\ errs = <<>>
    /\ ecrImage = ""
    /\ startTime = 0
    /\ idx = 0
    /\ retryStart = 0
    /\ waitDur = 0
    /\ expectedNodes = 0
    /\ nodeItems = <<>>

\* the created flag is the one the earlier run left, which is true with
\* nothing in the cluster after a Create that failed at its image check
ResumeInit ==
    PersistedInit({c \in [Enable : BOOLEAN, Created : BOOLEAN, Nodes : 1..MaxNodes,
                          NodeGroups : 1..MaxNodeGroups,
                          TimeFrameCreate : {NewTimeFrame(0, 0)},
                          TimeFrameDelete : {NewTimeFrame(0, 0)},
                          CreatedNodeNames : {<<>>}] : c.Created => c.Enable})
ResumeSpec == ResumeInit /\ [][HollowNext \/ Stop]_vars

\* n node names, as a checkNodes of a large addon recorded them
RecordedNames(n) == [k \in 1..n |-> "fake-node-" \o ToString(k - 1)]

\* Delete over a persisted configuration of a created addon whose recorded
\* node names are about as many as the cap of deleteCreatedNodes
CapInit ==
    PersistedInit([Enable : {TRUE}, Created : {TRUE}, Nodes : {MaxNodes},
                   NodeGroups : {MaxNodeGroups},
                   TimeFrameCreate : {NewTimeFrame(0, 0)},
                   TimeFrameDelete : {NewTimeFrame(0, 0)},
                   CreatedNodeNames : {RecordedNames(n) : n \in DeleteNodesCap..MaxRecorded}])
CapSpec ==
    CapInit /\ [][\/ Delete
                  \/ deleteReplicationController
                  \/ deleteCreatedNodes
                  \/ deleteConfigMap
                  \/ deleteRBACClusterRoleBinding
                  \/ deleteRBACClusterRole
                  \/ deleteServiceAccount
                  \/ DeleteNamespaceAndWait]_vars

\* the waiters side by side alone
ParInit == Init /\ tester = ParTester
ParSpec == ParInit /\ [][ParNext]_vars

\* extractCSRStatus alone
ClassifyInit == Init /\ tester = CSRTester
ClassifySpec == ClassifyInit /\ [][ClassifyCSR]_vars

(***************************************************************************)
(* Properties.                                                             *)
(***************************************************************************)
Last(s) == s[Len(s)]

\* the steps an operation ran, in the order it ran them
StepsOf(t) == [k \in 1..Len(t) |-> t[k].step]

\* the operation that was last invoked has returned
Returned == pc = "idle"

\* C1: a Delete of the hollow-nodes tester that is invoked while the addon
\* is not enabled or its created flag is false returns nil at once, issues
\* no external call, lets no time pass (no settle sleep) and leaves the
\* configuration in memory, the stored configuration and the cluster as
\* they were.
DeleteSkipIsNoOp ==
    [][(/\ tester = HollowTester
        /\ pc = "idle"
        /\ op' = "Delete"
        /\ ops' = ops + 1
        /\ (~cfg.Enable \/ ~cfg.Created))
       => (/\ pc' = "idle"
           /\ ret' = Nil
           /\ calls' = <<>>
           /\ trace' = <<>>
           /\ now' = now
           /\ cfg' = cfg
           /\ store' = store
           /\ cluster' = cluster)]_vars

\* C1 witness: Delete was invoked on an enabled addon that was never
\* created, and returned nil without any call.
DeleteSkipWitness ==
    /\ tester = HollowTester
    /\ op = "Delete"
    /\ Returned
    /\ cfg.Enable
    /\ ~cfg.Created
    /\ ~store.Created
    /\ ret = Nil
    /\ calls = <<>>
    /\ store.TimeFrameDelete = NewTimeFrame(0, 0)

\* C2: while Create of the hollow-nodes tester runs, and as soon as it has
\* issued an external call, the created flag is true in memory and in the
\* store; and whenever an object of the addon exists in the cluster during
\* or after Create, the stored created flag is true.
CreatedPersistedBeforeCalls ==
    /\ (tester = HollowTester /\ op = "Create" /\ (~Returned \/ calls # <<>>))
           => (cfg.Created /\ store.Created)
    /\ (tester = HollowTester /\ op = "Create" /\ \E r \in Resources : cluster[r].exists)
           => store.Created

\* C2 witness: Create is about to issue its first external call.
CreatedBeforeFirstCallWitness ==
    /\ tester = HollowTester
    /\ op = "Create"
    /\ pc = "ecrCheck"
    /\ calls = <<>>
    /\ store.Created

\* C3: when Create of the hollow-nodes tester has returned an error, the
\* created flag is true in memory and in the store, so the guards of Delete
\* do not skip.
CreatedAfterFailedCreate ==
    (tester = HollowTester /\ op = "Create" /\ Returned /\ ret # Nil)
        => (cfg.Created /\ store.Created /\ ~DeleteSkipped(cfg))

\* C3 witness: Create failed at the readiness check, after every
\* provisioning step.
FailedReadinessWitness ==
    /\ tester = HollowTester
    /\ op = "Create"
    /\ Returned
    /\ ret # Nil
    /\ trace # <<>>
    /\ Last(trace).step = "checkNodes"
    /\ store.Created

\* the teardown steps of the tester, and the positions of Delete at them
TeardownSteps == IF tester = HollowTester THEN DeleteSteps ELSE NLBDeleteSteps
TeardownPcs ==
    IF tester = HollowTester THEN DeleteSteps
    ELSE <<"NLBDeleteService", "NLBDeleteDeployment", "NLBDeleteNamespaceAndWait">>

\* C4: a Delete (of either tester) that got past its entry guards and its
\* prompt attempts every teardown step exactly once, in order, whatever the
\* earlier steps returned: while it runs, the steps before its position have
\* all run; when it has returned, all of them have, it returned nil iff no
\* step failed, and the error it returned contains the message of every
\* failed step.
TeardownNeverStopsEarly ==
    op = "Delete" =>
        /\ (~Returned /\ pc # "panicked") =>
              /\ \E k \in 1..Len(TeardownPcs) : TeardownPcs[k] = pc
              /\ StepsOf(trace) = SubSeq(TeardownSteps, 1, StepIndex(TeardownPcs, pc) - 1)
        /\ (Returned /\ trace # <<>>) =>
              /\ StepsOf(trace) = TeardownSteps
              /\ (ret = Nil) <=> (\A k \in 1..Len(trace) : trace[k].err = Nil)
              /\ \A k \in 1..Len(trace) :
                    trace[k].err # Nil => IsSubSeq(trace[k].err.msg, ret.msg)

\* C4 witness: a Delete of the hollow-nodes tester returned after two of
\* its steps failed, the first of them not the last step.
TwoFailedTeardownStepsWitness ==
    /\ tester = HollowTester
    /\ op = "Delete"
    /\ Returned
    /\ Len(trace) = Len(DeleteSteps)
    /\ \E j, k \in 1..Len(trace) : j < k /\ trace[j].err # Nil /\ trace[k].err # Nil

\* C5: while a Delete of the hollow-nodes tester runs its teardown, created
\* is true; when it has returned after a teardown in which a step failed,
\* created is still true in memory and in the store and the guards of Delete
\* do not skip; created is false after a teardown only if no step failed.
CreatedClearedOnlyOnFullSuccess ==
    (tester = HollowTester /\ op = "Delete" /\ (trace # <<>> \/ ~Returned)) =>
        /\ ~Returned => (cfg.Created /\ store.Created)
        /\ (Returned /\ \E k \in 1..Len(trace) : trace[k].err # Nil)
              => (cfg.Created /\ store.Created /\ ~DeleteSkipped(cfg))
        /\ (Returned /\ ~store.Created) => (\A k \in 1..Len(trace) : trace[k].err = Nil)

\* C5 witness: a Delete returned an error and left created true.
FailedDeleteKeepsCreatedWitness ==
    /\ tester = HollowTester
    /\ op = "Delete"
    /\ Returned
    /\ Len(trace) = Len(DeleteSteps)
    /\ ret # Nil
    /\ store.Created

\* everything Create and Apply run, in order
ProvisioningSteps ==
    IF tester = HollowTester
    THEN <<"ecrCheck", "CreateNamespace">> \o CreateSteps
    ELSE <<"CreateNamespace", "createDeployment", "checkDeployment", "createService",
           "checkService">>

\* C6: Create and Apply run their steps in the fixed order; a step that
\* returned an error is the last step that ran, the operation has returned
\* an error, and the operation issued no delete call.
ProvisioningFailsFast ==
    op \in {"Create", "Apply"} =>
        /\ Len(trace) <= Len(ProvisioningSteps)
        /\ StepsOf(trace) = SubSeq(ProvisioningSteps, 1, Len(trace))
        /\ \A k \in 1..Len(trace) :
              trace[k].err # Nil => (k = Len(trace) /\ Returned /\ ret # Nil)
        /\ \A i \in 1..Len(calls) : calls[i].op # "delete"

\* C6 witness: Create failed at createConfigMap, after the service account
\* was created; the later steps did not run and the service account is
\* still there.
FailFastWitness ==
    /\ tester = HollowTester
    /\ op = "Create"
    /\ Returned
    /\ ret # Nil
    /\ trace # <<>>
    /\ Last(trace).step = "createConfigMap"
    /\ cluster[ServiceAccountRes].exists
    /\ ~cluster[HollowNodeRes(0, 0)].exists

\* the step named by the error Create returns for a failed step: the %s
\* argument of its format
StepIdentity(e) == e.msg[2]

\* C7: when a step of Create's loop failed, the step identity carried by
\* the returned error is not the one carried for a failure of any other
\* step.
StepErrorNamesStep ==
    (/\ tester = HollowTester
     /\ op = "Create"
     /\ Returned
     /\ trace # <<>>
     /\ Last(trace).err # Nil
     /\ \E j \in 1..Len(CreateSteps) : CreateSteps[j] = Last(trace).step)
    => \A j \in 1..Len(CreateSteps) :
          CreateSteps[j] # Last(trace).step
              => StepIdentity(ret) # ReflectTypeOf(CreateSteps[j])

\* the kinds of the resources the testers create, and the step that creates
\* each
CreatedKinds ==
    {"ServiceAccount", "ClusterRole", "ClusterRoleBinding", "ConfigMap",
     "ReplicationController", "Deployment", "Service"}

StepOfKind(kind) ==
    CASE kind = "ServiceAccount" -> "createServiceAccount"
      [] kind = "ClusterRole" -> "createRBACClusterRole"
      [] kind = "ClusterRoleBinding" -> "createRBACClusterRoleBinding"
      [] kind = "ConfigMap" -> "createConfigMap"
      [] kind = "ReplicationController" -> "createHollowNodes"
      [] kind = "Deployment" -> "createDeployment"
      [] kind = "Service" -> "createService"

\* the step of the given kind is the last that ran, and it returned an error
StepFailedLast(kind) ==
    trace # <<>> /\ Last(trace).step = StepOfKind(kind) /\ Last(trace).err # Nil

\* C8: every Create of a resource of the testers that was answered
\* AlreadyExists is followed by an Update of the same resource with the same
\* spec, and the step returns what the Update returned: an error with the
\* text of the Update's error when it failed, nil when it succeeded.
AlreadyExistsIsUpdated ==
    \A i \in 1..Len(calls) :
        (/\ calls[i].op = "create"
         /\ calls[i].res.kind \in CreatedKinds
         /\ IsAlreadyExists(calls[i].ans))
        => /\ i < Len(calls)
           /\ calls[i + 1].op = "update"
           /\ calls[i + 1].res = calls[i].res
           /\ calls[i + 1].data = calls[i].data
           /\ calls[i + 1].ans # Nil =>
                 /\ i + 1 = Len(calls)
                 /\ StepFailedLast(calls[i].res.kind)
                 /\ IsSubSeq(calls[i + 1].ans.msg, Last(trace).err.msg)
           /\ (calls[i + 1].ans = Nil /\ i + 1 = Len(calls))
                 => ~StepFailedLast(calls[i].res.kind)

\* the kinds the create steps of the hollow-nodes tester create
HollowCreatedKinds ==
    {"ServiceAccount", "ClusterRole", "ClusterRoleBinding", "ConfigMap",
     "ReplicationController"}

\* C9: in the create steps of the hollow-nodes tester, a Create answered
\* with an error other than AlreadyExists, and an Update answered with an
\* error, is the last call of the step sequence: its step returned an error
\* and Create has returned an error.
CreateFailureStopsSequence ==
    \A i \in 1..Len(calls) :
        (/\ calls[i].op \in {"create", "update"}
         /\ calls[i].res.kind \in HollowCreatedKinds
         /\ calls[i].ans # Nil
         /\ ~(calls[i].op = "create" /\ IsAlreadyExists(calls[i].ans)))
        => /\ i = Len(calls)
           /\ StepFailedLast(calls[i].res.kind)
           /\ Returned
           /\ ret # Nil

\* C10: a create step that runs while its resource is in the cluster with
\* the very spec the step submits, and that the API server does not fail,
\* leaves the cluster as it was and returns no error: the step sequence
\* goes on.
CreateTwiceIsIdempotent ==
    [][(/\ Len(calls') > Len(calls)
        /\ SubSeq(calls', 1, Len(calls)) = calls
        /\ calls'[Len(calls) + 1].op = "create"
        /\ calls'[Len(calls) + 1].res \in Resources
        /\ cluster[calls'[Len(calls) + 1].res] = Obj(calls'[Len(calls) + 1].data)
        /\ faults' = faults)
       => (/\ cluster' = cluster
           /\ pc' # "idle"
           /\ ret' = Running
           /\ trace' = trace \/ (trace' # <<>> /\ Last(trace').err = Nil))]_vars

\* C10 witness: a second Create found the ConfigMap of the first, updated
\* it with the same data, and went on to the next step.
SecondCreateUpdatesWitness ==
    /\ tester = HollowTester
    /\ op = "Create"
    /\ ops = 2
    /\ pc = "createHollowNodes"
    /\ cluster[ConfigMapRes] = Obj(KubeConfigData)
    /\ \E i \in 1..Len(calls) :
          /\ calls[i].op = "update"
          /\ calls[i].res = ConfigMapRes
          /\ calls[i].data = KubeConfigData
          /\ calls[i].ans = Nil


\* the delete steps of the hollow-nodes tester that issue one delete call,
\* with the resource they delete
SingleDeleteSteps ==
    {<<"deleteReplicationController", NamedReplicationControllerRes>>,
     <<"deleteConfigMap", ConfigMapRes>>,
     <<"deleteRBACClusterRoleBinding", ClusterRoleBindingRes>>,
     <<"deleteRBACClusterRole", ClusterRoleRes>>,
     <<"deleteServiceAccount", ServiceAccountRes>>}

\* the answer says the resource is absent or was deleted: nil, a structured
\* NotFound, or a text that holds "not found"
AbsentOrDeleted(a) ==
    \/ a = Nil
    \/ a.reason = "NotFound"
    \/ \E i \in 1..Len(a.msg) : a.msg[i] = "not found"

\* the delete calls issued for node objects
NodeDeleteCalls == {i \in 1..Len(calls) : calls[i].op = "delete" /\ calls[i].res.kind = "Node"}

\* C11: in a Delete of the hollow-nodes tester, every delete step that has
\* run returned nil if and only if each delete call it issued was answered
\* with nil, with a structured NotFound or with an error whose text holds
\* "not found"; any other answer makes the step return an error.
DeleteStepAbsentIsSuccess ==
    (tester = HollowTester /\ op = "Delete") =>
        \A k \in 1..Len(trace) :
            /\ \A sr \in SingleDeleteSteps :
                trace[k].step = sr[1] =>
                    \E i \in 1..Len(calls) :
                        /\ calls[i].op = "delete"
                        /\ calls[i].res = sr[2]
                        /\ (trace[k].err = Nil) <=> AbsentOrDeleted(calls[i].ans)
            /\ trace[k].step = "deleteCreatedNodes" =>
                ((trace[k].err = Nil) <=>
                    \A i \in NodeDeleteCalls : AbsentOrDeleted(calls[i].ans))

\* C11 witness: a Delete has returned in which a node delete was answered
\* with a structured NotFound and deleteCreatedNodes returned nil, a step
\* was answered with an unstructured "not found" text and returned nil, and
\* a third step was answered with another error and returned an error.
AbsentResourceDeleteWitness ==
    /\ tester = HollowTester
    /\ op = "Delete"
    /\ Returned
    /\ Len(trace) = Len(DeleteSteps)
    /\ \E i \in NodeDeleteCalls : calls[i].ans.reason = "NotFound"
    /\ \E k \in 1..Len(trace) : trace[k].step = "deleteCreatedNodes" /\ trace[k].err = Nil
    /\ \E j, l \in 1..Len(calls) :
        /\ calls[j].op = "delete" /\ calls[j].ans.reason = "Unknown"
        /\ calls[l].op = "delete" /\ calls[l].ans.reason = "InternalError"
        /\ \E kj, kl \in 1..Len(trace) :
            /\ <<trace[kj].step, calls[j].res>> \in SingleDeleteSteps
            /\ <<trace[kl].step, calls[l].res>> \in SingleDeleteSteps
            /\ trace[kj].err = Nil
            /\ trace[kl].err # Nil


(***************************************************************************)
(* The node waiter: properties.                                            *)
(***************************************************************************)
\* s holds no '.'
NoDot(s) == \A i \in 1..Len(s) : SubSeq(s, i, i) # "."

\* short is what precedes the first '.' of name (name itself without '.')
IsShortFormOf(short, name) ==
    /\ NoDot(short)
    /\ Len(short) <= Len(name)
    /\ SubSeq(name, 1, Len(short)) = short
    /\ (Len(short) = Len(name) \/ SubSeq(name, Len(short) + 1, Len(short) + 1) = ".")

\* the host name or its short form is in the identity set
InIdentitySet(set, hostName) ==
    \E member \in set : member = hostName \/ IsShortFormOf(member, hostName)

\* the listed nodes that carry the label of the group, whose host name is
\* in the identity set and that have a Ready condition of status True
ReadyGroupNodes(nodes, set) ==
    {i \in 1..Len(nodes) :
        /\ nodes[i].NGName = MNGName
        /\ InIdentitySet(set, HostName(nodes[i], set))
        /\ \E k \in 1..Len(nodes[i].conds) :
            nodes[i].conds[k].type = "Ready" /\ nodes[i].conds[k].status = "True"}

\* Wait has returned from a call that reached the poll loop
WaitPolled == tester = WaitTester /\ op = "Wait" /\ Returned /\ mng.local.polled

\* C12: Wait returns nil only after a poll iteration that listed the nodes
\* and counted at least ASGMinSize ready nodes of the group among them,
\* whatever the desired capacity is.
WaitSuccessOnlyAtMinReady ==
    (tester = WaitTester /\ op = "Wait" /\ Returned /\ ret = Nil) =>
        /\ mng.local.polled
        /\ mng.local.iteration = "counted"
        /\ mng.local.readies >= mng.cur.ASGMinSize
        /\ Cardinality(ReadyGroupNodes(mng.local.nodes, mng.local.ec2PrivateDNS))
               >= mng.cur.ASGMinSize

\* C12 witness: Wait returned nil with the minimum size of ready nodes,
\* which is positive and below the desired capacity.
WaitSuccessBelowDesiredWitness ==
    /\ WaitPolled
    /\ ret = Nil
    /\ mng.cur.ASGMinSize > 0
    /\ mng.local.readies = mng.cur.ASGMinSize
    /\ mng.local.readies < mng.cur.ASGDesiredCapacity


\* C13: a call of Wait that reached the poll loop returns nil (Success),
\* the not-ready error (TimedOut) or the aborted error (Aborted), and
\* nothing else, whatever the listings and the addresses of the nodes are.
PollEndsInThreeOutcomes ==
    WaitPolled => ret \in {Nil, MNGNotReadyErr(MNGName), WaitAbortedErr}


\* the list calls checkNodes has issued
ListCalls == {i \in 1..Len(calls) : calls[i].op = "list"}

NGNotReadyErr == [reason |-> "", msg |-> <<"NG ", NodeLabelPrefix, " not ready">>]

\* a failed list call leaves the poll where it is and changes neither the
\* count nor the configuration, in memory or stored
ListFailureIsNoOp ==
    /\ (/\ pc = "waitForNodesPoll"
        /\ now' # now
        /\ mng'.local.iteration = "list-failed")
       => (/\ pc' = pc
           /\ ret' = ret
           /\ mng'.cur = mng.cur
           /\ mng'.store = mng.store
           /\ mng'.local.readies = mng.local.readies
           /\ mng'.local.nodes = mng.local.nodes
           /\ mng'.local.matched = mng.local.matched)
    /\ (/\ pc = "checkNodesPoll"
        /\ Len(calls') = Len(calls) + 1
        /\ Last(calls').ans # Nil)
       => (/\ pc' = pc
           /\ ret' = ret
           /\ trace' = trace
           /\ cfg' = cfg
           /\ store' = store)

\* a poll never returns the error of a list call, and a poll whose list
\* calls all failed returns the not-ready error or the aborted error
ListErrorNeverReturned ==
    /\ WaitPolled =>
        /\ ret.reason # "InternalError"
        /\ ~mng.local.listed => ret \in {MNGNotReadyErr(MNGName), WaitAbortedErr}
    /\ (/\ tester = HollowTester
        /\ op = "Create"
        /\ trace # <<>>
        /\ Last(trace).step = "checkNodes")
       => /\ Last(trace).err.reason # "InternalError"
          /\ \A i \in ListCalls : calls[i].ans # Nil => Last(trace).err # calls[i].ans
          /\ (\A i \in ListCalls : calls[i].ans # Nil)
                => Last(trace).err \in {NGNotReadyErr, ErrorsNew("checking node aborted")}

\* C14: in Wait and in checkNodes a failed node-list call is not fatal: the
\* iteration evaluates no count and changes no persisted field, the loop
\* goes on, and a poll in which every list call failed ends with the
\* not-ready error (or the aborted error), never with the list error.
ListFailureNeverFatal == []ListErrorNeverReturned /\ [][ListFailureIsNoOp]_vars

\* C14 witness: Wait returned the not-ready error after a poll in which
\* ListNodes failed in every iteration until the budget had elapsed.
AllListsFailedWitness ==
    /\ WaitPolled
    /\ ~stopc
    /\ ~mng.local.listed
    /\ mng.local.iteration = "list-failed"
    /\ ret = MNGNotReadyErr(MNGName)
    /\ now - retryStart >= waitDur


\* checkNodes was the last step of a Create that has returned
CheckNodesPolled ==
    /\ tester = HollowTester
    /\ op = "Create"
    /\ pc = "idle"
    /\ trace # <<>>
    /\ Last(trace).step = "checkNodes"

\* C15 (as stated): a poll during which the cancellation signal was raised
\* returns the aborted error, whatever was listed and however much of the
\* budget is left. Refuted: the signal is read only by the select that opens
\* an iteration, so a signal raised while the iteration lists and counts is
\* not seen when that iteration ends the poll.
SignalledPollReturnsAborted ==
    /\ (WaitPolled /\ stopc) => ret = WaitAbortedErr
    /\ (CheckNodesPolled /\ stopc) => Last(trace).err = ErrorsNew("checking node aborted")


\* no time passes in a step taken with the cancellation signal raised
NoWaitOnceSignalled == stopc => now' = now

\* C16 (as stated): every wait of the lifecycle is cut short by the
\* cancellation signal, so with the signal raised no wait elapses. Refuted:
\* the settle waits of teardown, the security-group retry wait and the
\* pre-check and retry waits of the service check are plain sleeps that do
\* not look at the signal.
EverySleepCutShortBySignal == [][NoWaitOnceSignalled]_vars


\* a poll that ends without cancellation, at the loop test or at the
\* threshold test, ends in Success within the budget or in TimedOut with the
\* budget spent
PollEndsWithinBudget ==
    (~stopc /\ ~stopc') =>
        /\ (/\ pc = "waitForNodesPoll"
            /\ pc' = "idle"
            /\ mng'.local.iteration # "no-hostname") =>
              \/ ret' = Nil /\ now' - retryStart < waitDur
              \/ ret' = MNGNotReadyErr(MNGName) /\ now' - retryStart >= waitDur
        /\ (pc = "checkNodesPoll" /\ pc' # pc) =>
              \/ Last(trace').err = Nil /\ now' - retryStart < waitDur
              \/ Last(trace').err = NGNotReadyErr /\ now' - retryStart >= waitDur

\* C17 (as stated): with no cancellation a poll whose count reaches the
\* threshold returns Success before the time budget has elapsed, and a poll
\* whose count never does returns TimedOut once the budget has elapsed.
\* Refuted: the budget is tested only before an iteration starts, so the
\* iteration that reaches the threshold may end after the budget.
SuccessBeforeBudgetElseTimedOut == [][PollEndsWithinBudget]_vars


\* C18: in each iteration of the poll of Wait that counts, the ready count
\* is the number of listed nodes whose NGName label is the name of the node
\* group, whose selected host name belongs to the identity set and that
\* carry a Ready condition of status True; a node adds at most one.
ReadyCountIsFilteredCount ==
    (tester = WaitTester /\ mng.local.iteration = "counted") =>
        /\ mng.local.readies
             = Cardinality(ReadyGroupNodes(mng.local.nodes, mng.local.ec2PrivateDNS))
        /\ mng.local.readies <= Len(mng.local.matched)
        /\ Len(mng.local.matched) <= Len(mng.local.nodes)

\* C18 witness: an iteration listed two ready nodes with host names of the
\* instances, one of the group and one of another group, and counted one.
OtherGroupNodeNotCountedWitness ==
    /\ tester = WaitTester
    /\ mng.local.iteration = "counted"
    /\ Len(mng.local.nodes) = 2
    /\ mng.local.nodes[2].NGName # MNGName
    /\ HasReadyCondition(mng.local.nodes[2])
    /\ BelongsTo(mng.local.ec2PrivateDNS, HostName(mng.local.nodes[2], mng.local.ec2PrivateDNS))
    /\ mng.local.readies = 1


\* the host names a listing may hold, and the instance names in short form
CandidateHostNames ==
    UNION {{n.addresses[k].address : k \in 1..Len(n.addresses)} :
              n \in ListedNodeA \cup ListedNodeB}
    \cup {"ip-1-2-3-4", "ip-9-9-9-9"}

\* the part of a candidate before its first '.', found by search
ShortFormOf(candidate) ==
    CHOOSE short \in {SubSeq(candidate, 1, n) : n \in 0..Len(candidate)} :
        IsShortFormOf(short, candidate)

\* C19: the identity set holds, for each instance, its full private DNS
\* name and what precedes the first '.' of it, and nothing else; a host
\* name belongs to it iff the host name or its short form is in the set.
\* With the instance ip-1-2-3-4.region.compute.internal alone, the full
\* name and ip-1-2-3-4 belong and ip-9-9-9-9 does not.
IdentitySetHoldsFullAndShortNames ==
    (tester = WaitTester /\ mng.local.polled) =>
        LET set == mng.local.ec2PrivateDNS IN
        /\ \A d \in mng.cur.Instances : d \in set /\ ShortFormOf(d) \in set
        /\ \A s \in set : \E d \in mng.cur.Instances : s = d \/ s = ShortFormOf(d)
        /\ \A h \in CandidateHostNames :
              BelongsTo(set, h) <=> (h \in set \/ ShortFormOf(h) \in set)
        /\ mng.cur.Instances = {"ip-1-2-3-4.region.compute.internal"} =>
              /\ BelongsTo(set, "ip-1-2-3-4.region.compute.internal")
              /\ BelongsTo(set, "ip-1-2-3-4")
              /\ ~BelongsTo(set, "ip-9-9-9-9")
              /\ ~BelongsTo(set, "ip-9-9-9-9.region.compute.internal")
        /\ mng.local.iteration = "counted" =>
              \A i \in 1..Len(mng.local.nodes) :
                  LET h == HostName(mng.local.nodes[i], set) IN
                  mng.local.nodes[i].NGName = MNGName =>
                      ((\E k \in 1..Len(mng.local.matched) : mng.local.matched[k] = h)
                          <=> (h \in set \/ ShortFormOf(h) \in set))

\* C19 witness: with one instance, an iteration matched a node of the group
\* whose host name has the short form of the instance under another domain,
\* and did not match a node of the group named after no instance.
ShortFormMatchedWitness ==
    /\ tester = WaitTester
    /\ mng.local.iteration = "counted"
    /\ mng.cur.Instances = {"ip-1-2-3-4.region.compute.internal"}
    /\ mng.local.matched = <<"ip-1-2-3-4.my-private-dns">>
    /\ Len(mng.local.nodes) = 2
    /\ mng.local.nodes[2].NGName = MNGName
    /\ HostName(mng.local.nodes[2], mng.local.ec2PrivateDNS)
          = "ip-9-9-9-9.region.compute.internal"


\* c is among the conditions
HasCondition(conds, c) == \E i \in 1..Len(conds) : conds[i] = c

\* C20: the status of a certificate signing request whose conditions are
\* approvals and denials is Denied if a denial is among them, in whatever
\* order, else Approved if an approval is, else Pending (also with no
\* condition at all), followed by ",Issued" iff the certificate is not
\* empty: [Approved] with a certificate gives "Approved,Issued"; [Denied,
\* Approved] and [Approved, Denied] without one give "Denied"; no condition
\* and no certificate give "Pending".
DeniedBeforeApprovedBeforePending ==
    /\ (/\ tester = CSRTester
        /\ mng.csr.status # "unset"
        /\ \A i \in 1..Len(mng.csr.conditions) :
              mng.csr.conditions[i] \in {"Approved", "Denied"})
       => LET base == IF HasCondition(mng.csr.conditions, "Denied") THEN "Denied"
                      ELSE IF HasCondition(mng.csr.conditions, "Approved") THEN "Approved"
                      ELSE "Pending"
          IN mng.csr.status = (IF mng.csr.certificate # "" THEN base \o ",Issued" ELSE base)
    /\ extractCSRStatus([conditions |-> <<"Approved">>, certificate |-> "cert"])
          = "Approved,Issued"
    /\ extractCSRStatus([conditions |-> <<"Denied", "Approved">>, certificate |-> ""])
          = "Denied"
    /\ extractCSRStatus([conditions |-> <<"Approved", "Denied">>, certificate |-> ""])
          = "Denied"
    /\ extractCSRStatus([conditions |-> <<>>, certificate |-> ""]) = "Pending"

\* C20 witness: a request approved and then denied, with a certificate, was
\* given the status "Denied,Issued".
DeniedAfterApprovedWitness ==
    /\ tester = CSRTester
    /\ mng.csr.conditions = <<"Approved", "Denied">>
    /\ mng.csr.certificate = "cert"
    /\ mng.csr.status = "Denied,Issued"


\* a condition of the request has a type other than Approved and Denied
HasUnknownCondition(conds) ==
    \E i \in 1..Len(conds) : conds[i] \notin {"Approved", "Denied"}

\* C21: the status of a certificate signing request is empty iff one of its
\* conditions has a type other than Approved and Denied, wherever that
\* condition is in the list, whatever the other conditions are and whether
\* or not a certificate is there: no ",Issued", no "Pending".
UnknownConditionGivesEmptyStatus ==
    (tester = CSRTester /\ mng.csr.status # "unset") =>
        (mng.csr.status = "" <=> HasUnknownCondition(mng.csr.conditions))

\* C21 witness: a request that is approved, denied and then carries a
\* condition of another type, with a certificate, was given the empty status.
UnknownLastConditionWitness ==
    /\ tester = CSRTester
    /\ mng.csr.conditions = <<"Approved", "Denied", "Failed">>
    /\ mng.csr.certificate = "cert"
    /\ mng.csr.status = ""


\* the kinds of the resources the calls of the operations in ks were issued
\* for, in the order of the calls, a run of calls for one kind counted once
RECURSIVE KindsCalled(_, _)
KindsCalled(cs, ks) ==
    IF cs = <<>> THEN <<>>
    ELSE LET rest == KindsCalled(Tail(cs), ks) IN
         IF Head(cs).op \notin ks THEN rest
         ELSE IF rest # <<>> /\ Head(rest) = Head(cs).res.kind THEN rest
         ELSE <<Head(cs).res.kind>> \o rest

RECURSIVE Reverse(_)
Reverse(s) == IF s = <<>> THEN <<>> ELSE Append(Reverse(Tail(s)), Head(s))

IsPrefix(s, t) == Len(s) <= Len(t) /\ SubSeq(t, 1, Len(s)) = s

RECURSIVE Without(_, _)
Without(s, x) ==
    IF s = <<>> THEN <<>>
    ELSE (IF Head(s) = x THEN <<>> ELSE <<Head(s)>>) \o Without(Tail(s), x)

\* the kinds Create and Apply provision, in the order they do
HollowProvisioned ==
    <<"Namespace", "ServiceAccount", "ClusterRole", "ClusterRoleBinding", "ConfigMap",
      "ReplicationController">>
NLBProvisioned == <<"Namespace", "Deployment", "Service">>

\* a delete was issued for the resource
DeleteIssued(r) == \E i \in 1..Len(calls) : calls[i].op = "delete" /\ calls[i].res = r

\* C22: teardown runs in reverse-dependency order. The delete calls of the
\* hollow-nodes Delete go to the ReplicationController, the node objects,
\* the ConfigMap, the ClusterRoleBinding, the ClusterRole, the
\* ServiceAccount and the namespace, in this order, which is the order of
\* provisioning reversed; and in both testers the namespace delete is
\* issued only after a delete was attempted for every sub-resource.
TeardownInReverseOrder ==
    /\ (tester = HollowTester /\ op = "Create") =>
          IsPrefix(KindsCalled(calls, {"create", "update"}), HollowProvisioned)
    /\ (tester = HollowTester /\ op = "Delete") =>
          /\ IsPrefix(KindsCalled(calls, {"delete"}),
                      <<"ReplicationController", "Node", "ConfigMap", "ClusterRoleBinding",
                        "ClusterRole", "ServiceAccount", "Namespace">>)
             \/ IsPrefix(KindsCalled(calls, {"delete"}),
                      <<"ReplicationController", "ConfigMap", "ClusterRoleBinding",
                        "ClusterRole", "ServiceAccount", "Namespace">>)
          /\ IsPrefix(Without(KindsCalled(calls, {"delete"}), "Node"),
                      Reverse(HollowProvisioned))
          /\ DeleteIssued(HollowNamespaceRes) =>
                /\ \A r \in {NamedReplicationControllerRes, ConfigMapRes, ClusterRoleBindingRes,
                             ClusterRoleRes, ServiceAccountRes} : DeleteIssued(r)
                /\ \A k \in 1..Len(NodesToDelete(cfg.CreatedNodeNames)) :
                      DeleteIssued(NodeRes(NodesToDelete(cfg.CreatedNodeNames)[k]))
    /\ (tester = NLBTester /\ op = "Apply") =>
          IsPrefix(KindsCalled(calls, {"create", "update"}), NLBProvisioned)
    /\ (tester = NLBTester /\ op = "Delete") =>
          /\ IsPrefix(KindsCalled(calls, {"delete"}), Reverse(NLBProvisioned))
          /\ DeleteIssued(NLBNamespaceRes) =>
                DeleteIssued(ServiceRes) /\ DeleteIssued(DeploymentRes)

\* C22 witness: a hollow-nodes Delete has issued its namespace delete after
\* deletes of a node object and of every other sub-resource, two of which
\* failed.
NamespaceDeletedLastWitness ==
    /\ tester = HollowTester
    /\ op = "Delete"
    /\ DeleteIssued(HollowNamespaceRes)
    /\ KindsCalled(calls, {"delete"}) =
          <<"ReplicationController", "Node", "ConfigMap", "ClusterRoleBinding",
            "ClusterRole", "ServiceAccount", "Namespace">>
    /\ Cardinality({i \in 1..Len(calls) : DeleteFailed(calls[i].ans)}) = 2


\* C23: when Create of an enabled addon has returned, with success or with
\* the failure of the image check, of the namespace creation, of a step or
\* of the readiness check, and when Delete has returned past its skip
\* guards, the configuration holds the time frame of the operation, from
\* its start to its return with start <= end, and the store holds that same
\* configuration: the sync of the time frame is the operation's last write.
TimeFrameRecordedOnEveryReturn ==
    /\ (tester = HollowTester /\ op = "Create" /\ Returned /\ cfg.Enable) =>
          /\ cfg.TimeFrameCreate = NewTimeFrame(startTime, now)
          /\ cfg.TimeFrameCreate.start <= cfg.TimeFrameCreate.end
          /\ store = cfg
    /\ (tester = HollowTester /\ op = "Delete" /\ Returned /\ trace # <<>>) =>
          /\ cfg.TimeFrameDelete = NewTimeFrame(startTime, now)
          /\ cfg.TimeFrameDelete.start <= cfg.TimeFrameDelete.end
          /\ store = cfg

\* C23 witness: a Create that failed in its readiness check after time had
\* passed was followed by a Delete that failed too; both time frames are in
\* the store, and neither is empty.
FailedOperationsTimedWitness ==
    /\ tester = HollowTester
    /\ op = "Delete"
    /\ Returned
    /\ ret # Nil
    /\ store.Created
    /\ store.TimeFrameCreate.end > store.TimeFrameCreate.start
    /\ store.TimeFrameDelete.start >= store.TimeFrameCreate.end
    /\ store.TimeFrameDelete.end > store.TimeFrameDelete.start


\* no call of the operation was answered with a failure, and the kubeconfig
\* file could be read
APIHealthy ==
    /\ \A i \in 1..Len(calls) : ~IsFault(calls[i].ans)
    /\ \A i \in 1..Len(trace) : ~Contains(trace[i].err, KubeConfigRes.name)

\* the create calls of the operation that found their resource in place
FoundInPlace == {i \in 1..Len(calls) : calls[i].op = "create" /\ IsAlreadyExists(calls[i].ans)}

\* the create calls of the operation that created their resource
NewlyCreated == {i \in 1..Len(calls) : calls[i].op = "create" /\ calls[i].ans = Nil}

\* C24: a Create whose calls the API answers without failure, in particular
\* one that runs after a Create that failed with part of the resources
\* created, fails in no provisioning step: no AlreadyExists answer becomes
\* an error, and Create returns only from the readiness check, after all
\* provisioning steps.
RetriedCreateReachesReadinessCheck ==
    (tester = HollowTester /\ op = "Create" /\ cfg.Enable /\ APIHealthy) =>
        /\ \A i \in 1..Len(trace) : trace[i].step # "checkNodes" => trace[i].err = Nil
        /\ ret.reason # "AlreadyExists"
        /\ Returned =>
              /\ Len(trace) = Len(CreateSteps) + 2
              /\ \A k \in 1..Len(CreateSteps) : trace[k + 2].step = CreateSteps[k]
              /\ \A r \in {HollowNamespaceRes, ServiceAccountRes, ClusterRoleRes,
                           ClusterRoleBindingRes, ConfigMapRes} : cluster[r] # Absent

\* C24 witness: a second Create found part of its resources in place,
\* created the others and has returned from the readiness check.
RetriedCreateWitness ==
    /\ tester = HollowTester
    /\ op = "Create"
    /\ ops = 2
    /\ Returned
    /\ APIHealthy
    /\ Cardinality(FoundInPlace) >= 2
    /\ Cardinality(NewlyCreated) >= 2
    /\ Last(trace).step = "checkNodes"


\* the configuration after the waits of the node groups were run one after
\* the other
SequentialOutcome ==
    [MNGs |-> [f \in Flows |-> [RemoteAccessSecurityGroupID |-> SGOf(f),
                                ASGName |-> ASGOf(f),
                                Instances |-> InstancesOf(f)]],
     PrivateDNSToNodeInfo |-> UNION {InstancesOf(f) : f \in Flows}]

\* the flows have ended: each waitForNodes returned, or the runtime threw
FlowsEnded == tester = ParTester /\ (par.fatal \/ \A f \in Flows : par.pc[f] = "done")

\* C25 (as stated): waits for distinct node groups that run side by side on
\* the shared configuration end with the persisted fields they end with
\* when run one after the other. Refuted: the flows write the maps of the
\* shared configuration without a lock, so that their writes race.
ConcurrentFlowsKeepTheirFields ==
    FlowsEnded => (~par.fatal /\ par.file = SequentialOutcome)


\* a poll loop is running
Polling == pc \in {"checkNodesPoll", "waitForNodesPoll"}

\* the poll has returned one of the three outcomes
PollReturnedOutcome ==
    \/ WaitPolled /\ ret \in {Nil, MNGNotReadyErr(MNGName), WaitAbortedErr}
    \/ CheckNodesPolled
          /\ Last(trace).err \in {Nil, NGNotReadyErr, ErrorsNew("checking node aborted")}

\* C26 (as stated): every poll of Wait and of checkNodes is bounded: with
\* external calls that return and a clock that advances it ends, with
\* Success, with the not-ready error or with the aborted error, even when
\* the threshold is never reached and every list call fails. Refuted for
\* the outcomes: the polls do all end, but a poll of Wait may end with the
\* error of a node without host name.
PollsEndInOneOfThreeOutcomes == Polling ~> PollReturnedOutcome


\* the first address of the list whose type is Hostname or InternalDNS, ""
\* when there is none
RECURSIVE FirstHostAddress(_)
FirstHostAddress(addrs) ==
    IF addrs = <<>> THEN ""
    ELSE IF Head(addrs).type \in {"Hostname", "InternalDNS"} THEN Head(addrs).address
    ELSE FirstHostAddress(Tail(addrs))

\* C27 (as stated): the host name a node of the group is matched under is
\* the first address of the node whose type is Hostname or InternalDNS; a
\* later address of these types is never used. Refuted: when the first such
\* address is not in the identity set, the loop goes on to the next one.
HostNameIsFirstHostAddress ==
    (tester = WaitTester /\ mng.local.iteration = "counted") =>
        \A k \in 1..Len(mng.local.matched) :
            \E i \in 1..Len(mng.local.nodes) :
                /\ mng.local.nodes[i].NGName = MNGName
                /\ mng.local.matched[k] = FirstHostAddress(mng.local.nodes[i].addresses)


\* the capacity the budget of Wait is computed for: the desired capacity,
\* the minimum size when the desired capacity is 0
TargetCapacity(cur) ==
    IF cur.ASGDesiredCapacity = 0 THEN cur.ASGMinSize ELSE cur.ASGDesiredCapacity

\* C28: the time budget of a poll is a fixed base plus an increment per unit
\* of target capacity: Wait has 10 minutes plus 10 seconds per desired
\* node, the minimum size standing in for a desired capacity of 0;
\* checkNodes has 5 minutes plus 2 seconds per expected node. It is never
\* below the base, it does not decrease when the target grows, and it is
\* finite.
BudgetIsBasePlusPerUnit ==
    /\ (tester = WaitTester /\ pc = "waitForNodesPoll") =>
          /\ waitDur = 600 + 10 * TargetCapacity(mng.cur)
          /\ waitDur >= 600
          /\ waitDur \in Nat
    /\ (tester = HollowTester /\ pc = "checkNodesPoll") =>
          /\ waitDur = 300 + 2 * expectedNodes
          /\ waitDur >= 300
          /\ waitDur \in Nat
    /\ ops = 0 =>
          /\ \A c1, c2 \in InitialMNGs :
                TargetCapacity(c1) <= TargetCapacity(c2) => WaitDur(c1) <= WaitDur(c2)
          /\ \A e1, e2 \in 0..(MaxNodes * MaxNodeGroups) :
                e1 <= e2 => CheckNodesWaitDur(e1) <= CheckNodesWaitDur(e2)

\* C28 witness: Wait polls for a node group of minimum size 2 with no
\* desired capacity, with a budget of 10 minutes and 20 seconds.
BudgetFromMinSizeWitness ==
    /\ tester = WaitTester
    /\ pc = "waitForNodesPoll"
    /\ mng.cur.ASGDesiredCapacity = 0
    /\ mng.cur.ASGMinSize = 2
    /\ waitDur = 620


\* max(1, floor(Nodes * NodeGroups / 2))
ReadyThreshold(c) ==
    IF (c.Nodes * c.NodeGroups) \div 2 > 1 THEN (c.Nodes * c.NodeGroups) \div 2 ELSE 1

\* an iteration of checkNodes has listed the nodes; the ready nodes of the
\* prefix it saw are then in CreatedNodeNames
IterationObserved == \E i \in ListCalls : calls[i].ans = Nil

\* C29: checkNodes reports success iff an iteration of its poll sees at
\* least max(1, floor(Nodes * NodeGroups / 2)) ready nodes whose NGName
\* label has the configured prefix: half the configured node count, in
\* integer division, and never zero nodes.
CheckNodesSucceedsAtHalf ==
    (tester = HollowTester /\ op = "Create" /\ cfg.Enable) =>
        /\ (pc = "checkNodesPoll" /\ IterationObserved) =>
              Len(cfg.CreatedNodeNames) < ReadyThreshold(cfg)
        /\ CheckNodesPolled =>
              /\ Last(trace).err = Nil
                    <=> (IterationObserved
                         /\ Len(cfg.CreatedNodeNames) >= ReadyThreshold(cfg))
              /\ Last(trace).err = Nil => Len(cfg.CreatedNodeNames) > 0
        /\ IterationObserved =>
              \A k \in 1..Len(cfg.CreatedNodeNames) :
                  \E n \in ListedNodes[1] \cup ListedNodes[2] :
                      /\ n.name = cfg.CreatedNodeNames[k]
                      /\ HasPrefix(n.NGName, NodeLabelPrefix)

\* C29 witness: with two nodes configured, checkNodes has succeeded on an
\* iteration that saw one ready node of the prefix.
HalfTheNodesReadyWitness ==
    /\ CheckNodesPolled
    /\ Last(trace).err = Nil
    /\ cfg.Nodes * cfg.NodeGroups = 2
    /\ Len(cfg.CreatedNodeNames) = 1


\* the delete calls of the operation issued for the kinds ks
DeletesOf(ks) == {i \in 1..Len(calls) : calls[i].op = "delete" /\ calls[i].res.kind \in ks}

\* every delete of the kinds later is issued at least window seconds after
\* every delete of the kinds earlier
SettledBetween(earlier, later, window) ==
    \A i \in DeletesOf(earlier), j \in DeletesOf(later) :
        i < j /\ calls[j].at >= calls[i].at + window

\* C30: settle windows separate dependent teardown steps. In the
\* hollow-nodes Delete the deletes of the node objects and of everything
\* after them are issued no sooner than 2 minutes after the delete of the
\* ReplicationController was attempted; in the NLB Delete the Deployment is
\* deleted no sooner than 1 minute after the Service, the namespace no
\* sooner than 1 minute after the Deployment. The window is waited whether
\* or not the preceding delete succeeded.
SettleWindowsSeparateDeletes ==
    /\ (tester = HollowTester /\ op = "Delete") =>
          /\ SettledBetween({"ReplicationController"},
                            {"Node", "ConfigMap", "ClusterRoleBinding", "ClusterRole",
                             "ServiceAccount", "Namespace"}, 120)
          /\ (pc # "deleteReplicationController" /\ trace # <<>>) =>
                /\ DeletesOf({"ReplicationController"}) # {}
                /\ \A i \in DeletesOf({"ReplicationController"}) : now >= calls[i].at + 120
    /\ (tester = NLBTester /\ op = "Delete") =>
          /\ SettledBetween({"Service"}, {"Deployment", "Namespace"}, 60)
          /\ SettledBetween({"Deployment"}, {"Namespace"}, 60)

\* C30 witness: a hollow-nodes Delete whose ReplicationController delete
\* failed has issued the delete of a node object, two minutes later.
SettledAfterFailedDeleteWitness ==
    /\ tester = HollowTester
    /\ op = "Delete"
    /\ DeletesOf({"Node"}) # {}
    /\ \E i \in DeletesOf({"ReplicationController"}) :
          /\ DeleteFailed(calls[i].ans)
          /\ \E j \in DeletesOf({"Node"}) : calls[j].at = calls[i].at + 120

\* the steps of Create's loop and the teardown steps of Delete
LifecycleSteps ==
    {CreateSteps[i] : i \in 1..Len(CreateSteps)} \cup {DeleteSteps[i] : i \in 1..Len(DeleteSteps)}

\* C31: during Create and Delete of the hollow-nodes tester, after every
\* provisioning or teardown step that completed successfully the progress
\* store is synced before the next step begins.
SyncFollowsEveryCompletedStep ==
    tester = HollowTester =>
        \A i \in 1..Len(trace) :
            (trace[i].step \in LifecycleSteps /\ trace[i].err = Nil) => trace[i].synced

\* the resources a Create of configuration c creates when all its steps
\* succeed
CreatedByCreate(c) ==
    {ServiceAccountRes, ClusterRoleRes, ClusterRoleBindingRes, ConfigMapRes}
    \cup {HollowNodeRes(i, j) : i \in 0..(c.NodeGroups - 1), j \in 0..(c.Nodes - 1)}

\* the last checkNodes of the addon ended with success, which is how a
\* Create ends with success: the names it stored last meet the threshold
CreateHadSucceeded ==
    CheckNodesReady(Len(cfg.CreatedNodeNames), ExpectedNodes(cfg))

\* C32: when a Delete of the hollow-nodes tester that follows a successful
\* Create has returned, it has issued, for every resource the Create
\* created (the ServiceAccount, the ClusterRole, the ClusterRoleBinding,
\* the ConfigMap and each hollow-node ReplicationController), a delete call
\* for the same kind, namespace and name.
DeleteTargetsWhatCreateCreated ==
    (tester = HollowTester /\ op = "Delete" /\ Returned /\ trace # <<>> /\ CreateHadSucceeded) =>
        \A r \in CreatedByCreate(cfg) : DeleteIssued(r)

\* C33: the persisted created flag of the hollow-nodes addon changes in two
\* ways only: it becomes true when Create of an enabled addon is invoked,
\* and it becomes false when a Delete returns nil after all its teardown
\* steps ran and none of them failed. Hence a Delete invoked after a Delete
\* that succeeded in full returns nil at once, with no external call and
\* nothing changed.
CreatedFlagChangesInTwoWays ==
    [][/\ store'.Created # store.Created =>
            \/ /\ ~store.Created /\ store'.Created
               /\ pc = "idle" /\ op' = "Create" /\ ops' = ops + 1
               /\ cfg.Enable
            \/ /\ store.Created /\ ~store'.Created
               /\ op = "Delete" /\ pc # "idle" /\ pc' = "idle"
               /\ ret' = Nil
               /\ StepsOf(trace') = DeleteSteps
               /\ \A i \in 1..Len(trace') : trace'[i].err = Nil
       /\ (/\ tester = HollowTester
           /\ pc = "idle" /\ op = "Delete" /\ ret = Nil /\ trace # <<>>
           /\ op' = "Delete" /\ ops' = ops + 1) =>
            /\ pc' = "idle" /\ ret' = Nil
            /\ calls' = <<>> /\ trace' = <<>>
            /\ store' = store /\ cfg' = cfg /\ cluster' = cluster /\ now' = now
      ]_vars

\* C33 witness: a Delete that ran every teardown step without a failure
\* has cleared the flag, and the Delete invoked after it has returned
\* without a call.
SecondDeleteAfterFullSuccessWitness ==
    /\ tester = HollowTester
    /\ op = "Delete" /\ pc = "idle" /\ ops = 2
    /\ calls = <<>> /\ trace = <<>> /\ ret = Nil
    /\ ~store.Created
    /\ store.TimeFrameDelete.end > 0

\* the error waitForNodes returns when the security group ID is still empty
\* and no retry is left
SGNotFoundErr ==
    [reason |-> "", msg |-> <<"remote access security group ID not found for mng ", MNGName>>]

\* the attempts Wait(mngName, retries) makes when the ID stays empty
Attempts(retries) == (IF retries > 0 THEN retries ELSE 0) + 1

\* C34: when the remote-access security group ID stays empty, Wait(mngName,
\* retries) calls DescribeNodegroup retries+1 times, once when retries <= 0,
\* five seconds apart, and then returns the security-group-not-found
\* error; the node group is not persisted, and neither the wait for the
\* instances nor the node poll is started. The retry terminates: every
\* attempt that does not end it has one retry less left.
SGRetryMakesRetriesPlusOneAttempts ==
    [][(tester = WaitTester /\ pc = "waitForNodes") =>
          /\ Len(calls') <= Attempts(mng.local.retries)
          /\ pc' = "waitForNodes" =>
                /\ mng.local.retriesLeft > 0
                /\ mng'.local.retriesLeft = mng.local.retriesLeft - 1
                /\ now' = now + SGRetryWait
          /\ pc' # "WaitUntilRunning" =>
                /\ mng'.store = mng.store
                /\ mng'.cur = mng.cur
          /\ (pc' = "idle" /\ ret' = SGNotFoundErr) =>
                /\ Len(calls') = Attempts(mng.local.retries)
                /\ \A i \in 1..Len(calls') :
                      /\ calls'[i].op = "describe"
                      /\ calls'[i].ans = Nil
                      /\ calls'[i].at = calls'[1].at + SGRetryWait * (i - 1)
                /\ now' = calls'[1].at + SGRetryWait * (Len(calls') - 1)
                /\ ~mng'.local.polled
                /\ mng'.store.RemoteAccessSecurityGroupID = ""
      ]_vars

\* C34 witness: Wait was called with as many retries as the bound allows,
\* every DescribeNodegroup answered without a security group, and Wait has
\* returned the error after its last attempt.
SGRetriesExhaustedWitness ==
    /\ tester = WaitTester
    /\ op = "Wait" /\ pc = "idle"
    /\ ret = SGNotFoundErr
    /\ mng.local.retries = MaxRetries
    /\ Len(calls) = MaxRetries + 1
    /\ now = SGRetryWait * MaxRetries

IsNodeCall(c) == c.res.kind = "Node"

\* the calls the running or last operation issued for node objects
NodeCalls == SelectSeq(calls, IsNodeCall)

\* deleteCreatedNodes has run in the Delete that is running or has returned
NodesStepDone ==
    /\ tester = HollowTester /\ op = "Delete"
    /\ \E i \in 1..Len(trace) : trace[i].step = "deleteCreatedNodes"

\* what deleteCreatedNodes returned
NodesStepErr == trace[CHOOSE i \in 1..Len(trace) : trace[i].step = "deleteCreatedNodes"].err

\* C35: deleteCreatedNodes issues its delete calls for the recorded node
\* names in the order of the list and for the first 302 of them at most
\* (indices 0 to 301). A failed delete is collected in the error the step
\* returns and the deletes after it are still issued; the names past the
\* 302nd get no call and add nothing to the error. So every recorded name
\* gets a delete call exactly when at most 302 names are recorded.
DeleteCreatedNodesCapsAt302 ==
    NodesStepDone =>
        LET names == cfg.CreatedNodeNames
            n == Len(names)
            nc == NodeCalls
            e == NodesStepErr
            targets == {nc[k].res : k \in 1..Len(nc)}
        IN
        /\ Len(nc) = IF n <= DeleteNodesCap + 2 THEN n ELSE DeleteNodesCap + 2
        /\ \A k \in 1..Len(nc) :
              /\ nc[k].op = "delete"
              /\ nc[k].res = NodeRes(names[k])
              /\ DeleteFailed(nc[k].ans) => IsSubSeq(nc[k].ans.msg, e.msg)
        /\ e = Nil <=> \A k \in 1..Len(nc) : ~DeleteFailed(nc[k].ans)
        /\ (\A k \in 1..n : NodeRes(names[k]) \in targets) <=> n <= DeleteNodesCap + 2

\* C35 witness: more than 302 names are recorded, the delete of the first
\* failed, and deleteCreatedNodes has gone on to the 302nd and returned.
NamesPastTheCapWitness ==
    /\ NodesStepDone
    /\ Len(cfg.CreatedNodeNames) > DeleteNodesCap + 2
    /\ Len(NodeCalls) = DeleteNodesCap + 2
    /\ DeleteFailed(NodeCalls[1].ans)
    /\ NodesStepErr # Nil
    /\ ~DeleteIssued(NodeRes(cfg.CreatedNodeNames[DeleteNodesCap + 3]))

\* the node carries the configured prefix in its NGName label and has a
\* Ready condition that is True
IsReadyOfPrefix(node) ==
    /\ HasPrefix(node.NGName, NodeLabelPrefix)
    /\ \E k \in 1..Len(node.conds) : node.conds[k] = [type |-> "Ready", status |-> "True"]

\* the names of those nodes, in the order of the listing
NamesOfReady(listed) ==
    LET sel == SelectSeq(listed, IsReadyOfPrefix) IN [k \in 1..Len(sel) |-> sel[k].name]

\* the step is an iteration of the poll of checkNodes, which made its list call
ListedInIteration ==
    /\ tester = HollowTester /\ pc = "checkNodesPoll"
    /\ Len(calls') = Len(calls) + 1
    /\ calls'[Len(calls')].op = "list"

\* C36: after an iteration of the poll of checkNodes whose node list
\* succeeded, the persisted CreatedNodeNames holds the names of the nodes
\* of that listing that carry the configured NGName prefix and have a true
\* Ready condition, and nothing else: what was recorded before is
\* overwritten. An iteration whose list failed leaves CreatedNodeNames as
\* it was; no other step changes it, and no step of Delete does.
CreatedNodeNamesFollowLastListing ==
    [][/\ ListedInIteration =>
            IF calls'[Len(calls')].ans = Nil
            THEN /\ cfg'.CreatedNodeNames = NamesOfReady(nodeItems')
                 /\ store'.CreatedNodeNames = NamesOfReady(nodeItems')
            ELSE /\ cfg'.CreatedNodeNames = cfg.CreatedNodeNames
                 /\ store'.CreatedNodeNames = store.CreatedNodeNames
       /\ (store'.CreatedNodeNames # store.CreatedNodeNames
           \/ cfg'.CreatedNodeNames # cfg.CreatedNodeNames) =>
            ListedInIteration /\ calls'[Len(calls')].ans = Nil
       /\ (tester = HollowTester /\ op' = "Delete") =>
            /\ cfg'.CreatedNodeNames = cfg.CreatedNodeNames
            /\ store'.CreatedNodeNames = store.CreatedNodeNames
      ]_vars

\* C36 witness: the second Create of a run has listed three nodes, of which
\* the first is ready, the second is not and the third is of another group,
\* and the name of the first alone is persisted.
OnlyReadyPrefixedNamesWitness ==
    /\ tester = HollowTester /\ op = "Create" /\ ops = 2
    /\ Len(nodeItems) = 3
    /\ IsReadyOfPrefix(nodeItems[1])
    /\ ~IsReadyOfPrefix(nodeItems[2]) /\ HasPrefix(nodeItems[2].NGName, NodeLabelPrefix)
    /\ ~HasPrefix(nodeItems[3].NGName, NodeLabelPrefix)
    /\ store.CreatedNodeNames = <<nodeItems[1].name>>


\* the state of the waiter apart from the logged map of the requests
WithoutAllCSRs(m) == [m EXCEPT !.local.allCSRs = <<>>]

\* C37: the outcome of Wait does not depend on the answers of ListCSRs: in
\* every iteration that counted the ready nodes, whatever ListCSRs answered,
\* any other answer of it (other requests, or a failure) after the same node
\* listing, at the same time and with the same cancellation gives the same
\* return or continuation of Wait and the same configuration, in memory and
\* persisted
WaitOutcomeIndependentOfListCSRs ==
    [][(pc = "waitForNodesPoll" /\ now' # now /\ mng'.local.iteration = "counted")
       => \A csrs \in ListCSRsAnswers :
            LET r == [readies |-> mng'.local.readies, matched |-> mng'.local.matched,
                      err |-> Nil]
                other == PollingNodes(Counted(mng, mng'.local.nodes, r), r.readies, csrs)
            IN
            /\ other.ready = (pc' = "idle" /\ ret' = Nil)
            /\ ~other.ready => (pc' = pc /\ ret' = ret)
            /\ WithoutAllCSRs(other.mng) = WithoutAllCSRs(mng')]_vars

\* Wait returned without error from an iteration in which ListCSRs listed
\* two denied requests
ReadyWithDeniedCSRsWitness ==
    /\ tester = WaitTester
    /\ pc = "idle"
    /\ ret = Nil
    /\ mng.local.iteration = "counted"
    /\ mng.local.allCSRs = ("Denied" :> 2)
    /\ mng.store = mng.cur

====
